---- MODULE Spec2Model ----
(***************************************************************************)
(* Observer: the inference-backend core.                                   *)
(*   utils/inferenceServer.ts  registry of custom servers, active address  *)
(*                             list, model catalog, completion routing,    *)
(*                             completion request and response decoding    *)
(*   components/AppHeader.tsx  the handlers and effects that drive it      *)
(* One action per handler, effect or async continuation.  The functions of *)
(* inferenceServer.ts are operators over the record M of module-level      *)
(* state, so that a handler that calls several of them is one action.      *)
(***************************************************************************)
EXTENDS Integers, Sequences, FiniteSets, Bags, TLC

\* ------------------------------------------------------------------ bounds
\* fetchModels runs that may be awaiting a response at the same time, in a
\* session of custom backends and in a session of the fixed backends
MaxInFlight == 1
MaxInFlightFixed == 2
\* lines of a completion stream, and places where the transport cuts it into
\* the chunks that reader.read() gives
MaxFrames == 3
MaxCuts == 1
\* how far below zero the cached quota figure is followed
MaxDebt == 1
\* fetchQuotaInfo runs that may be awaiting an answer at the same time
MaxQuotaInFlight == 3
\* calls of onUpgradeClick that are counted
MaxClicks == 2
\* entries of the registry while callers push entries into it
MaxServers == 3
\* the largest limit of a quota snapshot whose utilization is computed
MaxLimit == 4
\* health checks of the custom backends, and of the local backend, that may
\* be awaiting their probe at the same time
MaxProbes == 2

\* ------------------------------------------------------------- input data
\* An address is a sequence of tokens; " " is a whitespace character.
OB_SERVER_ADDRESS == <<"https://", "api.observer-ai.com", ":443">>
LOCAL_SERVER_ADDRESS == <<"http://", "localhost:3838">>
AddrA == <<"http://", "a">>
AddrAPadded == <<"http://", "a", " ">>
AddrB == <<"http://", "b">>
\* an address a user can register whose text contains the cloud host name
AddrEvil == <<"http://", "api.observer-ai.com", ".evil.example">>
\* what the settings dialog can hand to the add handler
AddrInputs == {AddrA, AddrAPadded, AddrB}
\* the addresses the other handlers are called with
CustomAddrs == {AddrA, AddrB}
\* undefined
NoKey == "undefined"
\* a text, or undefined, as a condition: if (apiKey), if (token)
truthy(text) == text \notin {"undefined", ""}
KeyInputs == {NoKey, "k1"}
\* a localStorage key holds no item (getItem gives null) or one text
NoItem == <<>>
Item(text) == <<text>>
\* the model ids each backend answers GET /v1/models with
RemoteModels(address) ==
  IF address = AddrA THEN <<"m1", "x">>
  ELSE IF address = AddrB THEN <<"x">>
  ELSE IF address = LOCAL_SERVER_ADDRESS THEN <<"l1">>
  ELSE IF address = OB_SERVER_ADDRESS THEN <<"c1">>
  ELSE IF address = AddrEvil THEN <<"e1">>
  ELSE <<>>
\* the names sendPrompt is called with
CustomModelNames == {"m1", "x", "nope"}
\* what a GET /v1/models can come back as
ModelsResponses(address) ==
  { [kind |-> "ok", data |-> RemoteModels(address)],
    [kind |-> "http_error", data |-> <<>>],
    [kind |-> "malformed", data |-> <<>>],
    [kind |-> "network_error", data |-> <<>>] }

\* a value that may be missing: undefined, or the value
Absent == <<>>
Present(v) == <<v>>
\* the session token sendPrompt is called with
NoToken == "undefined"
TokenInputs == {NoToken, "", "t1"}
\* JSON null
Null == "null"
\* no sendPrompt call is awaiting a response
NoCall == <<>>
Pending(request) == <<request>>

\* the lines a completion stream is made of; a line is a sequence of tokens:
\* "data: " is the prefix, "{" stands for {"choices":[{"delta":{"content":"
\* and "}" for "}}]}, "{}" is a JSON object without delta content
ContentFrame(content) == <<"data: ", "{", content, "}">>
DoneFrame == <<"data: ", "[DONE]">>
TruncatedFrame == <<"data: ", "{", "Hel">>
NoDeltaFrame == <<"data: ", "{}">>
CommentLine == <<": ping">>
FrameKinds ==
  { ContentFrame("Hel"), ContentFrame("lo"), ContentFrame(""), DoneFrame,
    TruncatedFrame, NoDeltaFrame, CommentLine }

\* the streams of up to MaxFrames lines
FrameSeqs == UNION { [1..n -> FrameKinds] : n \in 0..MaxFrames }

\* the text on the wire: each line ends with a newline
RECURSIVE Wire(_)
Wire(frames) ==
  IF frames = <<>> THEN <<>>
  ELSE Head(frames) \o <<"\n">> \o Wire(Tail(frames))

\* the sets of up to k cut positions in a text of n + 1 tokens; a cut at p
\* falls between token p and token p + 1
RECURSIVE CutSets(_, _)
CutSets(n, k) ==
  IF k = 0 THEN {{}}
  ELSE CutSets(n, k - 1)
         \cup { c \cup {p} : c \in CutSets(n, k - 1), p \in 1..n }

\* the chunks the reader gives for a text cut at these positions
RECURSIVE Chunks(_, _)
Chunks(wire, cuts) ==
  IF wire = <<>> THEN <<>>
  ELSE IF cuts = {} THEN <<wire>>
  ELSE LET p == CHOOSE q \in cuts : \A r \in cuts : q <= r
       IN <<SubSeq(wire, 1, p)>>
            \o Chunks(SubSeq(wire, p + 1, Len(wire)),
                      { q - p : q \in cuts \ {p} })

\* the body of a non-streaming completion response, as response.json() sees it
NotJSON == [valid |-> FALSE, isNull |-> FALSE, choices |-> Absent]
NullJSON == [valid |-> TRUE, isNull |-> TRUE, choices |-> Absent]
Data(choices) == [valid |-> TRUE, isNull |-> FALSE, choices |-> choices]
Choice(message) == [message |-> message]
Message(content) == [content |-> content]
Completion(content) ==
  Data(Present(<<Choice(Present(Message(Present(content))))>>))
JsonBodies ==
  { NotJSON, NullJSON, Data(Absent), Data(Present(<<>>)),
    Data(Present(<<Choice(Absent)>>)),
    Data(Present(<<Choice(Present(Message(Absent)))>>)),
    Completion("Hello"), Completion(""), Completion(Null) }

\* what fetch gives for POST /v1/chat/completions: a rejection, or a response
NetworkError ==
  [failed |-> TRUE, status |-> 0, json |-> NotJSON, body |-> Absent]
HttpResponse(status, json, body) ==
  [failed |-> FALSE, status |-> status, json |-> json, body |-> body]

\* the stream of the example: Hel, lo, [DONE], read as one chunk
HelloBody ==
  Present(<<Wire(<<ContentFrame("Hel"), ContentFrame("lo"), DoneFrame>>)>>)
\* the answers a completion request can get
CompletionResponses ==
  {NetworkError}
    \cup { HttpResponse(status, json, body) :
             status \in {200, 201, 401, 429, 500}, json \in JsonBodies,
             body \in {Absent, HelloBody} }
\* the answers given in a session of sends
SendResponses ==
  { HttpResponse(429, NotJSON, Absent),
    HttpResponse(200, Completion("Hello"), HelloBody) }
\* the answers given in a session of sends that fail: a rejection, statuses
\* outside 2xx, a body that is no JSON, a body without content, and a
\* completion
DispatchResponses ==
  { NetworkError,
    HttpResponse(500, NotJSON, Absent),
    HttpResponse(429, NotJSON, Absent),
    HttpResponse(200, NotJSON, Absent),
    HttpResponse(200, Data(Absent), Absent),
    HttpResponse(200, Completion("Hello"), Absent) }
\* the addresses fetchResponse is called with
ServerAddresses == {OB_SERVER_ADDRESS, LOCAL_SERVER_ADDRESS, AddrA, AddrEvil}
\* the names sendPrompt is called with in a session with credentials
SendModelNames == {"m1", "e1", "nope"}
\* the custom backends of that session
SendAddrs == {AddrA, AddrEvil}

\* the JSON body of GET /quota: tier is a text, remaining and limit are
\* Present(n) when they are numbers and Absent otherwise
QuotaData(tier, remaining, limit) ==
  [tier |-> tier, remaining |-> remaining, limit |-> limit]
\* what a fetchQuotaInfo run gets at its awaits: getToken gives no token, the
\* fetch rejects, or the endpoint answers; data is Absent for a JSON null
NoTokenAnswer == [kind |-> "no_token", status |-> 0, data |-> Absent]
QuotaNetworkError == [kind |-> "network_error", status |-> 0, data |-> Absent]
QuotaResponse(status, data) ==
  [kind |-> "http", status |-> status, data |-> data]
\* the answers given in a session of quota refreshes: no use, half used, a
\* paid plan, and a body without figures
QuotaAnswers ==
  { NoTokenAnswer, QuotaNetworkError,
    QuotaResponse(401, Absent), QuotaResponse(500, Absent),
    QuotaResponse(200, Present(QuotaData("free", Present(2), Present(2)))),
    QuotaResponse(200, Present(QuotaData("free", Present(1), Present(2)))),
    QuotaResponse(200, Present(QuotaData("pro", Present(0), Present(2)))),
    QuotaResponse(200, Present(QuotaData("free", Absent, Absent))) }
\* the plan names a snapshot can carry, "undefined" for a body without one
QuotaTiers == {"free", "pro", "max", "plus", "undefined"}
\* every snapshot with figures up to MaxLimit, remaining from one below zero
\* to one above the limit
ThresholdData ==
  { QuotaData(tier, remaining, limit) :
      tier \in QuotaTiers,
      remaining \in {Absent} \cup {Present(n) : n \in -1..(MaxLimit + 1)},
      limit \in {Absent} \cup {Present(n) : n \in 0..MaxLimit} }
\* what the fetch of a probe can come back as: a rejection, or a response
\* with a status
ProbeFailure == [failed |-> TRUE, status |-> 0]
ProbeStatus(status) == [failed |-> FALSE, status |-> status]
ProbeAnswers ==
  {ProbeFailure} \cup
  {ProbeStatus(status) : status \in {200, 204, 299, 300, 401, 404, 500}}
\* the apiKey argument of a probe
ProbeKeys == {NoKey, "", "k1"}
\* the values of the serverStatus prop
ServerStatuses == {"unchecked", "online", "offline"}

\* ------------------------------------------------------------------ state
VARIABLES
  customServers,       \* inferenceServer.ts: let customServers
  stored,              \* localStorage item 'observer-custom-servers'
  inferenceAddresses,  \* inferenceServer.ts: let inferenceAddresses
  availableModels,     \* inferenceServer.ts: let availableModels
  fetches,             \* fetchModels runs suspended at an await, by slot
  pendingChecks,       \* checkCustomServer calls awaiting their probe: a bag
                       \* of addresses, one copy for each call
  settledChecks,       \* handleCheckCustomServer calls whose checkCustomServer
                       \* has returned, awaiting their continuation, in order
  pendingLocalChecks,  \* checkLocalServer calls awaiting their probe, counted
  localServerOnline,   \* AppHeader state
  isUsingObServer,     \* AppHeader state / prop
  isAuthenticated,     \* authState.isAuthenticated
  hostingContext,      \* AppHeader prop
  mounted,             \* AppHeader's mount effects have run
  quotaItem,           \* localStorage item 'observer-quota-remaining'
  call,                \* the sendPrompt call awaiting its response
  quotaInfo,           \* AppHeader prop: the quota snapshot, Absent for null
  isSessionExpired,    \* AppHeader state
  has70PercentWarningBeenShown,  \* AppHeader state
  queuedUpdates,       \* the state updates React has not rendered yet
  quotaFetches,        \* fetchQuotaInfo runs suspended at an await, counted
                       \* by the has70PercentWarningBeenShown of their closure
  serverStatus,        \* AppHeader prop
  upgradeClicks,       \* history: calls of onUpgradeClick since the page load
  lastOp               \* history: the operation that produced this state

vars == <<customServers, stored, inferenceAddresses, availableModels, fetches,
          pendingChecks, settledChecks, pendingLocalChecks, localServerOnline,
          isUsingObServer, isAuthenticated, hostingContext, mounted,
          quotaItem, call,
          quotaInfo, isSessionExpired, has70PercentWarningBeenShown,
          queuedUpdates, quotaFetches, serverStatus, upgradeClicks, lastOp>>

\* the custom health checks in progress
checkVars == <<pendingChecks, settledChecks>>

\* an event handler or an effect runs in a task of its own: the continuations
\* queued by the task before it have all run
MicrotasksDone == settledChecks = <<>>

\* the state of the quota display, but for the cached figure
quotaVars == <<quotaInfo, isSessionExpired, has70PercentWarningBeenShown,
               queuedUpdates, quotaFetches, serverStatus, upgradeClicks>>

\* ---------------------------------------------------------------- helpers
Range(s) == { s[i] : i \in DOMAIN s }

RECURSIVE trimStart(_)
trimStart(s) ==
  IF s # <<>> /\ Head(s) = " " THEN trimStart(Tail(s)) ELSE s

RECURSIVE trimEnd(_)
trimEnd(s) ==
  IF s # <<>> /\ s[Len(s)] = " " THEN trimEnd(SubSeq(s, 1, Len(s) - 1)) ELSE s

\* String.prototype.trim
trim(s) == trimEnd(trimStart(s))

\* JSON.stringify of the server list: a property whose value is undefined is
\* left out of the text
JSONstringify(servers) ==
  [ i \in DOMAIN servers |->
      IF servers[i].apiKey = NoKey
      THEN [address |-> servers[i].address, enabled |-> servers[i].enabled,
            status |-> servers[i].status]
      ELSE servers[i] ]

\* JSON.parse of that text; reading a missing apiKey gives undefined
JSONparse(text) ==
  [ i \in DOMAIN text |->
      [address |-> text[i].address, enabled |-> text[i].enabled,
       status |-> text[i].status,
       apiKey |-> IF "apiKey" \in DOMAIN text[i] THEN text[i].apiKey ELSE NoKey] ]

\* customServers.find(s => s.address === address): its index, 0 when absent
find(servers, address) ==
  IF \E i \in DOMAIN servers : servers[i].address = address
  THEN CHOOSE i \in DOMAIN servers :
         /\ servers[i].address = address
         /\ \A j \in DOMAIN servers : servers[j].address = address => i <= j
  ELSE 0

IdleFetch ==
  [busy |-> FALSE, arr |-> <<>>, live |-> FALSE, idx |-> 0, acc |-> <<>>,
   older |-> {}, stale |-> FALSE]

Slots(m) == DOMAIN m.fetches

\* the module-level state of inferenceServer.ts as one value
M ==
  [customServers |-> customServers, stored |-> stored,
   inferenceAddresses |-> inferenceAddresses,
   availableModels |-> availableModels, fetches |-> fetches,
   overflow |-> FALSE]


\* ------------------------------------------------ inferenceServer.ts: sets
addInferenceAddress(m, address) ==
  IF address \in Range(m.inferenceAddresses)
  THEN m
  ELSE \* push mutates the array in place: a fetchModels run still iterating
       \* this same array object sees the new element
       [m EXCEPT !.inferenceAddresses = Append(@, address),
                 !.fetches = [s \in Slots(m) |->
                    IF m.fetches[s].busy /\ m.fetches[s].live
                    THEN [m.fetches[s] EXCEPT !.arr = Append(@, address)]
                    ELSE m.fetches[s]]]

removeInferenceAddress(m, address) ==
  \* filter builds a new array and rebinds the variable: runs in flight keep
  \* iterating the old array object
  [m EXCEPT !.inferenceAddresses =
               SelectSeq(@, LAMBDA addr : addr # address),
            !.fetches = [s \in Slots(m) |-> [m.fetches[s] EXCEPT !.live = FALSE]]]

clearInferenceAddresses(m) ==
  \* the variable is rebound to a new empty array: runs in flight keep
  \* iterating the old array object
  [m EXCEPT !.inferenceAddresses = <<>>,
            !.fetches = [s \in Slots(m) |-> [m.fetches[s] EXCEPT !.live = FALSE]]]

\* -------------------------------------------- inferenceServer.ts: registry
loadCustomServers(m) ==
  IF m.stored # NoItem
  THEN [m EXCEPT !.customServers = JSONparse(m.stored[1])]
  ELSE m

getCustomServers(m) == m.customServers

addCustomServer_NoExistsCheck(m, address, apiKey) ==
  LET normalizedAddress == trim(address)
      newServer == [address |-> normalizedAddress, enabled |-> TRUE,
                    status |-> "unchecked", apiKey |-> apiKey]
      pushed == Append(m.customServers, newServer)
  IN [m EXCEPT !.customServers = pushed, !.stored = Item(JSONstringify(pushed))]

addCustomServer_RawCompare(m, address, apiKey) ==
  LET normalizedAddress == trim(address)
      newServer == [address |-> normalizedAddress, enabled |-> TRUE,
                    status |-> "unchecked", apiKey |-> apiKey]
      pushed == Append(m.customServers, newServer)
  IN IF \E i \in DOMAIN m.customServers : m.customServers[i].address = address
     THEN m
     ELSE [m EXCEPT !.customServers = pushed, !.stored = Item(JSONstringify(pushed))]

addCustomServer(m, address, apiKey) ==
  LET normalizedAddress == trim(address)
      \* apiKey || undefined
      newServer == [address |-> normalizedAddress, enabled |-> TRUE,
                    status |-> "unchecked",
                    apiKey |-> IF apiKey = "" THEN NoKey ELSE apiKey]
      pushed == Append(m.customServers, newServer)
  IN IF \E i \in DOMAIN m.customServers :
          m.customServers[i].address = normalizedAddress
     THEN m
     ELSE [m EXCEPT !.customServers = pushed, !.stored = Item(JSONstringify(pushed))]

removeCustomServer_KeepActive(m, address) ==
  LET kept == SelectSeq(m.customServers, LAMBDA s : s.address # address)
  IN [m EXCEPT !.customServers = kept, !.stored = Item(JSONstringify(kept))]

removeCustomServer(m, address) ==
  LET kept == SelectSeq(m.customServers, LAMBDA s : s.address # address)
  IN removeInferenceAddress(
       [m EXCEPT !.customServers = kept, !.stored = Item(JSONstringify(kept))],
       address)

toggleCustomServer(m, address) ==
  LET i == find(m.customServers, address)
  IN IF i = 0 THEN m
     ELSE LET servers == [m.customServers EXCEPT ![i].enabled = ~@]
              m1 == [m EXCEPT !.customServers = servers,
                              !.stored = Item(JSONstringify(servers))]
          IN IF servers[i].enabled /\ servers[i].status = "online"
             THEN addInferenceAddress(m1, address)
             ELSE removeInferenceAddress(m1, address)

updateCustomServerApiKey(m, address, apiKey) ==
  LET i == find(m.customServers, address)
  IN IF i = 0 THEN m
     ELSE LET servers == [m.customServers EXCEPT
                            ![i].apiKey = IF apiKey = "" \/ apiKey = NoKey
                                          THEN NoKey ELSE apiKey]
          IN [m EXCEPT !.customServers = servers,
                       !.stored = Item(JSONstringify(servers))]

getCustomServerApiKey(m, address) ==
  LET i == find(m.customServers, address)
  IN IF i = 0 THEN NoKey ELSE m.customServers[i].apiKey

\* a status update that acts on the probed address without looking it up in the
\* registry first
updateCustomServerStatus_NoLookup(m, address, status) ==
  LET i == find(m.customServers, address)
      servers == IF i = 0 THEN m.customServers
                 ELSE [m.customServers EXCEPT ![i].status = status]
      m1 == IF i = 0 THEN m
            ELSE [m EXCEPT !.customServers = servers,
                           !.stored = Item(JSONstringify(servers))]
  IN IF status = "online"
     THEN addInferenceAddress(m1, address)
     ELSE removeInferenceAddress(m1, address)

updateCustomServerStatus(m, address, status) ==
  LET i == find(m.customServers, address)
  IN IF i = 0 THEN m
     ELSE LET servers == [m.customServers EXCEPT ![i].status = status]
              m1 == [m EXCEPT !.customServers = servers,
                              !.stored = Item(JSONstringify(servers))]
          IN IF status = "online" /\ servers[i].enabled
             THEN addInferenceAddress(m1, address)
             ELSE removeInferenceAddress(m1, address)

\* the registry functions that hand a list of backends to their caller
RegistryFunctions ==
  {"getCustomServers", "loadCustomServers", "addCustomServer",
   "removeCustomServer", "toggleCustomServer", "updateCustomServerApiKey",
   "updateCustomServerStatus"}

\* the module-level state after a call of one of them, with "k2" as the
\* credential and 'offline' as the status where one is passed
registryCall(m, fn, address) ==
  CASE fn = "getCustomServers" -> m
    [] fn = "loadCustomServers" -> loadCustomServers(m)
    [] fn = "addCustomServer" -> addCustomServer(m, address, "k2")
    [] fn = "removeCustomServer" -> removeCustomServer(m, address)
    [] fn = "toggleCustomServer" -> toggleCustomServer(m, address)
    [] fn = "updateCustomServerApiKey" ->
         updateCustomServerApiKey(m, address, "k2")
    [] fn = "updateCustomServerStatus" ->
         updateCustomServerStatus(m, address, "offline")

\* the array a call returns: "registry" when the return statement names the
\* module's own array (`return customServers`), "copy" for [...customServers]
\* and "empty" for the literal [] of loadCustomServers; m is the state before
returnedArray(m, fn, address) ==
  IF fn = "loadCustomServers"
  THEN IF m.stored # NoItem THEN "registry" ELSE "empty"
  ELSE IF /\ fn = "addCustomServer"
          /\ \E i \in DOMAIN m.customServers :
               m.customServers[i].address = trim(address)
  THEN "registry"
  ELSE "copy"

\* what a caller does to the list it was handed
CallerMutations == {"push", "disable"}

\* the entry a caller pushes
PushedServer ==
  [address |-> AddrB, enabled |-> TRUE, status |-> "unchecked",
   apiKey |-> NoKey]

\* the registry's array after the caller mutated the list it was handed:
\* returned.push(PushedServer) reaches the registry when the array is the
\* registry's own; returned[0].enabled = false reaches it whenever the list
\* has an entry, a spread copy holding the registry's own entry objects
callerMutates(servers, array, mutation) ==
  IF mutation = "push"
  THEN IF array = "registry" THEN Append(servers, PushedServer) ELSE servers
  ELSE IF array # "empty" /\ servers # <<>>
       THEN [servers EXCEPT ![1].enabled = FALSE]
       ELSE servers

\* what a probe's GET /v1/models can come back as
ProbeResponses == {"ok", "http_error", "network_error"}

checkInferenceServer(resp) ==
  IF resp = "ok" THEN "online" ELSE "offline"

\* the request of a probe: `if (apiKey)` is false for undefined and for ''
checkInferenceServerRequest(address, apiKey) ==
  [method |-> "GET", url |-> address \o <<"/v1/models">>,
   authorization |-> IF apiKey \notin {NoKey, ""}
                     THEN Present(<<"Bearer ", apiKey>>)
                     ELSE Absent]

\* response.ok
ok(status) == status \in 200..299

\* the ServerResponse for what the fetch came back as
checkInferenceServerResult(answer) ==
  IF answer.failed
  THEN [status |-> "offline", error |-> <<"Could not connect to server">>,
        thrown |-> FALSE]
  ELSE IF ok(answer.status)
  THEN [status |-> "online", error |-> <<>>, thrown |-> FALSE]
  ELSE [status |-> "offline",
        error |-> <<"Server responded with status ", answer.status>>,
        thrown |-> FALSE]

\* a probe that tries once more when the first attempt did not succeed
checkInferenceServerCall_Retry(address, apiKey, answers) ==
  LET request == checkInferenceServerRequest(address, apiKey)
      first == checkInferenceServerResult(answers[1])
  IN IF first.status = "online"
     THEN [requests |-> <<request>>, result |-> first]
     ELSE [requests |-> <<request, request>>,
           result |-> checkInferenceServerResult(answers[2])]

\* checkInferenceServer from its call to its return: the requests it makes,
\* answers[i] being what the i-th fetch would come back as, and its result
checkInferenceServerCall(address, apiKey, answers) ==
  [requests |-> <<checkInferenceServerRequest(address, apiKey)>>,
   result |-> checkInferenceServerResult(answers[1])]

\* ---------------------------------------------- inferenceServer.ts: catalog
listModelsFromAddress(address, resp) ==
  IF resp.kind = "ok"
  THEN [ i \in DOMAIN resp.data |-> [name |-> resp.data[i], server |-> address] ]
  ELSE <<>>

listModels(m) == m.availableModels

BusySlots(m) == { s \in Slots(m) : m.fetches[s].busy }

\* availableModels = allModels, by the run in slot self (0: a run that never
\* suspended).  History: the runs started before this one are marked stale.
applyModels(m, allModels, olderSlots, self) ==
  [m EXCEPT !.availableModels = allModels,
            !.fetches = [t \in Slots(m) |->
               IF t = self THEN IdleFetch
               ELSE IF m.fetches[t].busy
                    THEN [m.fetches[t] EXCEPT
                            !.stale = @ \/ (t \in olderSlots),
                            !.older = @ \ {self}]
                    ELSE m.fetches[t]]]

\* fetchModels up to its first await
fetchModels(m) ==
  IF m.inferenceAddresses = <<>>
  THEN applyModels(m, <<>>, BusySlots(m), 0)
  ELSE IF BusySlots(m) = Slots(m)
  THEN [m EXCEPT !.overflow = TRUE]
  ELSE LET s == CHOOSE t \in Slots(m) \ BusySlots(m) :
                  \A u \in Slots(m) \ BusySlots(m) : t <= u
       IN [m EXCEPT !.fetches[s] =
             [busy |-> TRUE, arr |-> m.inferenceAddresses, live |-> TRUE,
              idx |-> 1, acc |-> <<>>, older |-> BusySlots(m),
              stale |-> FALSE]]

\* the same, assigning availableModels in every iteration
fetchModelsResume_PublishEach(m, s, resp) ==
  LET f == m.fetches[s]
      allModels == f.acc \o listModelsFromAddress(f.arr[f.idx], resp)
  IN IF f.idx < Len(f.arr)
     THEN [m EXCEPT !.fetches[s].idx = @ + 1, !.fetches[s].acc = allModels,
                    !.availableModels = allModels]
     ELSE applyModels(m, allModels, f.older, s)

\* fetchModels from the answer for arr[idx] to its next await or its end
fetchModelsResume(m, s, resp) ==
  LET f == m.fetches[s]
      allModels == f.acc \o listModelsFromAddress(f.arr[f.idx], resp)
  IN IF f.idx < Len(f.arr)
     THEN [m EXCEPT !.fetches[s].idx = @ + 1, !.fetches[s].acc = allModels]
     ELSE applyModels(m, allModels, f.older, s)

\* sendPrompt up to its dispatch: the server of the first model of that name
sendPrompt(m, modelName) ==
  LET models == listModels(m)
      hits == { i \in DOMAIN models : models[i].name = modelName }
  IN IF hits = {}
     THEN [found |-> FALSE, server |-> <<>>]
     ELSE [found |-> TRUE,
           server |-> models[CHOOSE i \in hits : \A j \in hits : i <= j].server]

\* ------------------------------------------- inferenceServer.ts: completion
\* String.prototype.includes, on the tokens of an address
includes(address, part) == part \in Range(address)

\* optimisticUpdateQuota counting down from zero when nothing is cached
optimisticUpdateQuota_FromZero(item) ==
  IF item = NoItem THEN Item(-1)
  ELSE IF item[1] \in Int THEN Item(item[1] - 1) ELSE item

\* the localStorage item after optimisticUpdateQuota; parseInt of a text that
\* is no number is NaN
optimisticUpdateQuota(item) ==
  IF item # NoItem /\ item[1] \in Int THEN Item(item[1] - 1) ELSE item

\* the item after sendPrompt, with the decrement made before the lookup
sendPromptQuota_BeforeLookup(item, r, token) ==
  IF truthy(token) THEN optimisticUpdateQuota(item) ELSE item

\* sendPrompt: the item after its call of optimisticUpdateQuota, r being the
\* result of the lookup
sendPromptQuota(item, r, token) ==
  IF r.found /\ includes(r.server, "api.observer-ai.com") /\ truthy(token)
  THEN optimisticUpdateQuota(item)
  ELSE item

\* fetchResponse: the credential of the Authorization header of the request,
\* NoKey when the header is not set: if (token), if (customServerApiKey)
fetchResponseAuthorization(m, serverAddress, token) ==
  LET credential == IF includes(serverAddress, "api.observer-ai.com")
                    THEN token
                    ELSE getCustomServerApiKey(m, serverAddress)
  IN IF truthy(credential) THEN credential ELSE NoKey

\* fetchResponse up to its fetch: the request it posts
fetchResponseRequest(m, serverAddress, modelName, token, stream, onStreamChunk) ==
  [server |-> serverAddress, model |-> modelName,
   authorization |-> fetchResponseAuthorization(m, serverAddress, token),
   stream |-> stream, onStreamChunk |-> onStreamChunk]

\* how a call settles: it returns a value or throws
Returned(value, callbacks) ==
  [error |-> "none", message |-> "", status |-> 0, value |-> Present(value),
   callbacks |-> callbacks]
Thrown(name, message, status) ==
  [error |-> name, message |-> message, status |-> status, value |-> Absent,
   callbacks |-> <<>>]

\* chunk.split('\n')
RECURSIVE split(_)
split(chunk) ==
  IF \A i \in DOMAIN chunk : chunk[i] # "\n"
  THEN <<chunk>>
  ELSE LET i == CHOOSE k \in DOMAIN chunk :
                  chunk[k] = "\n" /\ \A j \in 1..(k - 1) : chunk[j] # "\n"
       IN <<SubSeq(chunk, 1, i - 1)>> \o split(SubSeq(chunk, i + 1, Len(chunk)))

\* line.startsWith('data: ')
startsWithData(line) == line # <<>> /\ Head(line) = "data: "

\* JSON.parse(data) and parsed.choices?.[0]?.delta?.content
deltaContent(data) ==
  IF Len(data) = 3 /\ data[1] = "{" /\ data[3] = "}"
  THEN [parsed |-> TRUE, content |-> Present(data[2])]
  ELSE IF data = <<"{}">>
  THEN [parsed |-> TRUE, content |-> Absent]
  ELSE [parsed |-> FALSE, content |-> Absent]

StreamStart == [fullContent |-> "", callbacks |-> <<>>, returned |-> FALSE]

\* handleStreamingResponse: the body of the loop over the lines of one chunk
streamLine(st, line, onStreamChunk) ==
  IF st.returned \/ ~startsWithData(line)
  THEN st
  ELSE LET data == Tail(line)
           p == deltaContent(data)
       IN IF data = <<"[DONE]">>
          THEN [st EXCEPT !.returned = TRUE]
          ELSE IF p.parsed /\ p.content # Absent /\ p.content[1] # ""
          THEN [st EXCEPT !.fullContent = @ \o p.content[1],
                          !.callbacks = IF onStreamChunk
                                        THEN Append(@, p.content[1]) ELSE @]
          ELSE st

RECURSIVE streamLines(_, _, _)
streamLines(st, lines, onStreamChunk) ==
  IF lines = <<>>
  THEN st
  ELSE streamLines(streamLine(st, Head(lines), onStreamChunk), Tail(lines),
                   onStreamChunk)

\* handleStreamingResponse: the loop over the chunks reader.read() gives
RECURSIVE streamChunks(_, _, _)
streamChunks(st, chunks, onStreamChunk) ==
  IF chunks = <<>> \/ st.returned
  THEN st
  ELSE streamChunks(
         streamLines(st,
                     SelectSeq(split(Head(chunks)),
                               LAMBDA line : trim(line) # <<>>),
                     onStreamChunk),
         Tail(chunks), onStreamChunk)

\* body: Absent when the response has no body, else the chunks read from it;
\* onStreamChunk: a callback was supplied
handleStreamingResponse(body, onStreamChunk) ==
  IF body = Absent
  THEN Thrown("Error", "No response body available for streaming", 0)
  ELSE LET st == streamChunks(StreamStart, body[1], onStreamChunk)
       IN Returned(st.fullContent, st.callbacks)

\* the test of the response structure without its test of the content: a
\* missing content is returned as undefined
jsonContent_NoContentTest(data) ==
  IF \/ data.choices = Absent
     \/ data.choices[1] = <<>>
     \/ data.choices[1][1].message = Absent
  THEN Absent
  ELSE IF data.choices[1][1].message[1].content = Absent
  THEN Present("undefined")
  ELSE data.choices[1][1].message[1].content

\* fetchResponse: data.choices[0].message.content of a body that has it
jsonContent(data) ==
  IF \/ data.choices = Absent
     \/ data.choices[1] = <<>>
     \/ data.choices[1][1].message = Absent
     \/ data.choices[1][1].message[1].content = Absent
  THEN Absent
  ELSE data.choices[1][1].message[1].content

\* fetchResponse with the test for 429 after the test for a failed status
fetchResponse_429AfterNotOk(request, resp) ==
  IF resp.failed
  THEN Thrown("TypeError", "Failed to fetch", 0)
  ELSE IF resp.status \notin 200..299
  THEN Thrown("Error", "API error", resp.status)
  ELSE IF resp.status = 429
  THEN Thrown("UnauthorizedError", "Access denied. Quota may be exceeded.", 0)
  ELSE IF request.stream
  THEN handleStreamingResponse(resp.body, request.onStreamChunk)
  ELSE IF ~resp.json.valid
  THEN Thrown("SyntaxError", "Unexpected token", 0)
  ELSE IF resp.json.isNull
  THEN Thrown("TypeError", "Cannot read properties of null", 0)
  ELSE IF jsonContent(resp.json) = Absent
  THEN Thrown("Error", "Unexpected API response structure", 0)
  ELSE Returned(jsonContent(resp.json)[1], <<>>)

\* fetchResponse from the answer of its fetch to its end
fetchResponse(request, resp) ==
  IF resp.failed
  THEN Thrown("TypeError", "Failed to fetch", 0)
  ELSE IF resp.status = 429
  THEN Thrown("UnauthorizedError", "Access denied. Quota may be exceeded.", 0)
  ELSE IF resp.status \notin 200..299
  THEN Thrown("Error", "API error", resp.status)
  ELSE IF request.stream
  THEN handleStreamingResponse(resp.body, request.onStreamChunk)
  ELSE IF ~resp.json.valid
  THEN Thrown("SyntaxError", "Unexpected token", 0)
  ELSE IF resp.json.isNull
  THEN Thrown("TypeError", "Cannot read properties of null", 0)
  ELSE IF jsonContent(resp.json) = Absent
  THEN Thrown("Error", "Unexpected API response structure", 0)
  ELSE Returned(jsonContent(resp.json)[1], <<>>)

\* sendPrompt sending the request again when fetchResponse threw
sendPromptSettle_Retry(request, resp) ==
  IF fetchResponse(request, resp).error # "none"
  THEN [call |-> Pending(request), result |-> fetchResponse(request, resp)]
  ELSE [call |-> NoCall, result |-> fetchResponse(request, resp)]

\* sendPrompt from the answer of fetchResponse's fetch to its end: it returns
\* the value or rethrows the error, and no request of it is left in flight
sendPromptSettle(request, resp) ==
  [call |-> NoCall, result |-> fetchResponse(request, resp)]

\* ------------------------------------------------------------ quota display
\* optimisticUpdateQuota dispatches 'quotaUpdated' exactly when it writes
quotaUpdatedDispatched(item) == item # NoItem /\ item[1] \in Int

\* sendPrompt: whether its call of optimisticUpdateQuota, if any, dispatches
sendPromptDispatched(item, r, token) ==
  /\ r.found
  /\ includes(r.server, "api.observer-ai.com")
  /\ truthy(token)
  /\ quotaUpdatedDispatched(item)

\* the quota display and the cached figure as one value
Q ==
  [quotaInfo |-> quotaInfo, isSessionExpired |-> isSessionExpired,
   has70PercentWarningBeenShown |-> has70PercentWarningBeenShown,
   queuedUpdates |-> queuedUpdates, quotaFetches |-> quotaFetches,
   upgradeClicks |-> upgradeClicks, quotaItem |-> quotaItem]

\* no state update waits for a render.  Of the updates queued since the last
\* render the next one is decided by the last setQuotaInfo(value), the last
\* setQuotaInfo(prev => ...) queued after it, the last setIsSessionExpired and
\* the last setHas70PercentWarningBeenShown; an update that leaves the
\* rendered value as it is changes no render and is not kept.
NoUpdates ==
  [quotaInfo |-> Absent, remaining |-> Absent, isSessionExpired |-> Absent,
   has70PercentWarningBeenShown |-> Absent]

\* the quotaInfo of the next render
queuedQuotaInfo(q) ==
  LET prev == IF q.queuedUpdates.quotaInfo # Absent
              THEN q.queuedUpdates.quotaInfo[1]
              ELSE q.quotaInfo
  IN IF q.queuedUpdates.remaining # Absent /\ prev # Absent
     THEN Present([prev[1] EXCEPT !.remaining = q.queuedUpdates.remaining])
     ELSE prev

\* the isSessionExpired of the next render
queuedIsSessionExpired(q) ==
  IF q.queuedUpdates.isSessionExpired # Absent
  THEN q.queuedUpdates.isSessionExpired[1]
  ELSE q.isSessionExpired

\* setQuotaInfo(value), value being null or an object parsed from a response
setQuotaInfo(q, value) ==
  [q EXCEPT !.queuedUpdates.quotaInfo =
              IF value = Absent /\ q.quotaInfo = Absent THEN Absent
              ELSE Present(value),
            !.queuedUpdates.remaining = Absent]

\* setQuotaInfo(prev => prev ? { ...prev, remaining } : null)
setQuotaInfoRemaining(q, remaining) ==
  IF queuedQuotaInfo(q) = Absent
  THEN q
  ELSE [q EXCEPT !.queuedUpdates.remaining = Present(remaining)]

setIsSessionExpired(q, value) ==
  [q EXCEPT !.queuedUpdates.isSessionExpired =
              IF value = q.isSessionExpired THEN Absent ELSE Present(value)]

setHas70PercentWarningBeenShown(q, value) ==
  [q EXCEPT !.queuedUpdates.has70PercentWarningBeenShown =
              IF value = q.has70PercentWarningBeenShown THEN Absent
              ELSE Present(value)]

NoQuotaFetches == [shown \in BOOLEAN |-> 0]

\* tier !== 'pro' && tier !== 'max' && tier !== 'plus'
notPaid(tier) == tier \notin {"pro", "max", "plus"}

\* usagePercentage >= 50 for ((limit - remaining) / limit) * 100 with
\* limit > 0; for integers of this size the division and the product by 100
\* are exact at the threshold, so the test is the one on the cross product
usageAtLeast50_Above(remaining, limit) ==
  (limit - remaining) * 100 > 50 * limit

usageAtLeast50(remaining, limit) ==
  (limit - remaining) * 100 >= 50 * limit

\* fetchQuotaInfo's test on a 200 body whose remaining is a number, but for
\* has70PercentWarningBeenShown: the plan is not a paid one, limit is a
\* positive number and half of it is used
triggersUpgrade(data) ==
  /\ notPaid(data.tier)
  /\ data.limit # Absent
  /\ data.limit[1] > 0
  /\ usageAtLeast50(data.remaining[1], data.limit[1])

\* useEffect [quotaInfo, has70PercentWarningBeenShown, onUpgradeClick] after
\* a render that changed one of them; onUpgradeClick is supplied
thresholdEffect(q) ==
  IF \/ q.quotaInfo = Absent
     \/ ~notPaid(q.quotaInfo[1].tier)
     \/ q.has70PercentWarningBeenShown
  THEN q
  ELSE IF /\ q.quotaInfo[1].remaining # Absent
          /\ q.quotaInfo[1].limit # Absent
          /\ q.quotaInfo[1].limit[1] > 0
          /\ usageAtLeast50(q.quotaInfo[1].remaining[1],
                            q.quotaInfo[1].limit[1])
  THEN [setHas70PercentWarningBeenShown(q, TRUE) EXCEPT
          !.upgradeClicks = @ + 1]
  ELSE q

\* a render: the queued updates are applied together, and the threshold
\* effect runs when the render changed quotaInfo or
\* has70PercentWarningBeenShown
render(q) ==
  LET u == q.queuedUpdates
      rendered ==
        [q EXCEPT
           !.quotaInfo = queuedQuotaInfo(q),
           !.isSessionExpired = queuedIsSessionExpired(q),
           !.has70PercentWarningBeenShown =
             IF u.has70PercentWarningBeenShown # Absent
             THEN u.has70PercentWarningBeenShown[1] ELSE @,
           !.queuedUpdates = NoUpdates]
  IN IF \/ u.quotaInfo # Absent
        \/ u.remaining # Absent
        \/ u.has70PercentWarningBeenShown # Absent
     THEN thresholdEffect(rendered)
     ELSE rendered

\* fetchQuotaInfo up to its first await, called from a render whose state is
\* usingObServer, authenticated and q.has70PercentWarningBeenShown
fetchQuotaInfo(q, forceObServer, usingObServer, authenticated) ==
  IF ~(forceObServer \/ usingObServer) \/ ~authenticated
  THEN setIsSessionExpired(setQuotaInfo(q, Absent), FALSE)
  ELSE [q EXCEPT !.quotaFetches[q.has70PercentWarningBeenShown] = @ + 1]

\* a run that writes the figure only when none is cached
fetchQuotaInfoResume_KeepCache(q, shown, answer) ==
  LET run == [q EXCEPT !.quotaFetches[shown] = @ - 1]
      failed == setIsSessionExpired(setQuotaInfo(run, Absent), FALSE)
      data == answer.data
      set == setIsSessionExpired(setQuotaInfo(run, data), FALSE)
      kept == IF q.quotaItem # NoItem THEN q.quotaItem
              ELSE Item(data[1].remaining[1])
  IN IF answer.kind # "http" THEN failed
     ELSE IF answer.status \in 200..299
     THEN IF data # Absent /\ data[1].remaining # Absent
          THEN IF triggersUpgrade(data[1]) /\ ~shown
               THEN [setHas70PercentWarningBeenShown(set, TRUE) EXCEPT
                       !.quotaItem = kept, !.upgradeClicks = @ + 1]
               ELSE [set EXCEPT !.quotaItem = kept]
          ELSE [set EXCEPT !.quotaItem = NoItem]
     ELSE IF answer.status = 401
     THEN [setIsSessionExpired(setQuotaInfo(run, Absent), TRUE) EXCEPT
             !.quotaItem = NoItem]
     ELSE [failed EXCEPT !.quotaItem = NoItem]

\* a fetchQuotaInfo run from the answer it awaited to its end; shown is the
\* has70PercentWarningBeenShown its closure holds.  Its state updates are
\* queued for the next render; the item is written and onUpgradeClick is
\* called at once.
fetchQuotaInfoResume(q, shown, answer) ==
  LET run == [q EXCEPT !.quotaFetches[shown] = @ - 1]
      failed == setIsSessionExpired(setQuotaInfo(run, Absent), FALSE)
      data == answer.data
      set == setIsSessionExpired(setQuotaInfo(run, data), FALSE)
  IN IF answer.kind # "http" THEN failed
     ELSE IF answer.status \in 200..299
     THEN IF data # Absent /\ data[1].remaining # Absent
          THEN IF triggersUpgrade(data[1]) /\ ~shown
               THEN [setHas70PercentWarningBeenShown(set, TRUE) EXCEPT
                       !.quotaItem = Item(data[1].remaining[1]),
                       !.upgradeClicks = @ + 1]
               ELSE [set EXCEPT !.quotaItem = Item(data[1].remaining[1])]
          ELSE [set EXCEPT !.quotaItem = NoItem]
     ELSE IF answer.status = 401
     THEN [setIsSessionExpired(setQuotaInfo(run, Absent), TRUE) EXCEPT
             !.quotaItem = NoItem]
     ELSE [failed EXCEPT !.quotaItem = NoItem]

\* handleQuotaUpdate, the listener of 'quotaUpdated': it reads the item when
\* the event is dispatched and queues the update
handleQuotaUpdate(q) ==
  IF q.quotaItem # NoItem
  THEN setQuotaInfoRemaining(q, q.quotaItem[1])
  ELSE q

\* useEffect [isUsingObServer]
clearQuotaEffect(q, usingObServer) ==
  IF ~usingObServer
  THEN setIsSessionExpired(setQuotaInfo(q, Absent), FALSE)
  ELSE q

\* the quota part of useEffect [isUsingObServer, isAuthenticated]
obServerQuotaEffect(q, usingObServer, authenticated) ==
  IF usingObServer /\ authenticated
  THEN fetchQuotaInfo(q, TRUE, usingObServer, authenticated)
  ELSE q

\* useEffect [isUsingObServer, isAuthenticated, serverStatus]
serverStatusEffect(q, usingObServer, authenticated, status) ==
  IF usingObServer /\ authenticated /\ status = "online"
  THEN fetchQuotaInfo(q, FALSE, usingObServer, authenticated)
  ELSE q

\* the quota part of handleToggleObServer when it goes through, the render
\* of its state change and the effects the change runs.  The render of a
\* click is made at once for the updates of the click; whether it also
\* applies the updates that callbacks outside event handlers queued before
\* it (flush) is the scheduler's choice.
handleToggleObServerQuota(q, newValue, authenticated, status, flush) ==
  LET called == IF newValue /\ authenticated
                THEN fetchQuotaInfo(q, TRUE, ~newValue, authenticated)
                ELSE q
      rendered == IF flush THEN render(called) ELSE called
  IN serverStatusEffect(
       obServerQuotaEffect(clearQuotaEffect(rendered, newValue),
                           newValue, authenticated),
       newValue, authenticated, status)

\* the status with every custom backend whose health is online counted
computedServerStatus_IgnoreEnabled(servers, localOnline, usingObServer, authenticated) ==
  IF \/ localOnline
     \/ (usingObServer /\ authenticated)
     \/ \E i \in DOMAIN servers : servers[i].status = "online"
  THEN "online"
  ELSE IF /\ ~localOnline
          /\ (~usingObServer \/ ~authenticated)
          /\ \/ Len(servers) = 0
             \/ \E i \in DOMAIN servers : servers[i].status # "unchecked"
  THEN "offline"
  ELSE "unchecked"

\* computedServerStatus, from the customServers state of AppHeader, which
\* every handler sets to the registry's list
computedServerStatus(servers, localOnline, usingObServer, authenticated) ==
  IF \/ localOnline
     \/ (usingObServer /\ authenticated)
     \/ \E i \in DOMAIN servers :
          servers[i].enabled /\ servers[i].status = "online"
  THEN "online"
  ELSE IF /\ ~localOnline
          /\ (~usingObServer \/ ~authenticated)
          /\ \/ Len(servers) = 0
             \/ \E i \in DOMAIN servers : servers[i].status # "unchecked"
  THEN "offline"
  ELSE "unchecked"

\* the quota display after a handler ran; a handler that would need more than
\* MaxQuotaInFlight suspended fetchQuotaInfo runs, or a call of
\* onUpgradeClick beyond MaxClicks, is not taken
CommitQuota(q) ==
  /\ q.quotaFetches[FALSE] + q.quotaFetches[TRUE] <= MaxQuotaInFlight
  /\ q.upgradeClicks <= MaxClicks
  /\ quotaInfo' = q.quotaInfo
  /\ isSessionExpired' = q.isSessionExpired
  /\ has70PercentWarningBeenShown' = q.has70PercentWarningBeenShown
  /\ queuedUpdates' = q.queuedUpdates
  /\ quotaFetches' = q.quotaFetches
  /\ upgradeClicks' = q.upgradeClicks
  /\ quotaItem' = q.quotaItem

\* ------------------------------------------------------------ AppHeader.tsx
\* the module-level state after a handler ran; a handler that would need more
\* than MaxInFlight suspended fetchModels runs is not taken
Commit(m) ==
  /\ ~m.overflow
  /\ customServers' = m.customServers
  /\ stored' = m.stored
  /\ inferenceAddresses' = m.inferenceAddresses
  /\ availableModels' = m.availableModels
  /\ fetches' = m.fetches

Registered(address) ==
  \E i \in DOMAIN customServers : customServers[i].address = address

\* useEffect [isUsingObServer, isAuthenticated]
obServerEffect(m, usingObServer) ==
  IF usingObServer
  THEN fetchModels(addInferenceAddress(m, OB_SERVER_ADDRESS))
  ELSE fetchModels(removeInferenceAddress(m, OB_SERVER_ADDRESS))

\* the handlers as functions of the module-level state
handleAddCustomServer(m, address, apiKey) ==
  LET added == addCustomServer(m, address, NoKey)
      keyed == IF truthy(apiKey)
               THEN updateCustomServerApiKey(added, address, apiKey)
               ELSE added
  IN fetchModels(keyed)

handleRemoveCustomServer(m, address) ==
  fetchModels(removeCustomServer(m, address))

\* the toggle handler without its fetchModels
handleToggleCustomServer_NoRefresh(m, address) ==
  toggleCustomServer(m, address)

handleToggleCustomServer(m, address) ==
  fetchModels(toggleCustomServer(m, address))

\* checkCustomServer from the answer of the probe to its return
checkCustomServer(m, address, resp) ==
  updateCustomServerStatus(m, address, checkInferenceServer(resp))

\* handleCheckCustomServer after its await of checkCustomServer
handleCheckCustomServerResume(m) == fetchModels(m)

\* checkLocalServer from the answer of the probe
checkLocalServer(m, resp) ==
  IF checkInferenceServer(resp) = "online"
  THEN fetchModels(addInferenceAddress(m, LOCAL_SERVER_ADDRESS))
  ELSE fetchModels(removeInferenceAddress(m, LOCAL_SERVER_ADDRESS))

\* the page before AppHeader mounts; usingObServer and authenticated are the
\* isUsingObServer and authState props the parent mounts it with
InitWith(slots, usingObServer, authenticated) ==
  /\ customServers = <<>>
  /\ stored = NoItem
  /\ inferenceAddresses = <<>>
  /\ availableModels = <<>>
  /\ fetches = [s \in 1..slots |-> IdleFetch]
  /\ pendingChecks = EmptyBag
  /\ settledChecks = <<>>
  /\ pendingLocalChecks = 0
  /\ localServerOnline = FALSE
  /\ isUsingObServer = usingObServer
  /\ isAuthenticated = authenticated
  /\ hostingContext = "self-hosted"
  /\ mounted = FALSE
  /\ call = NoCall
  /\ quotaInfo = Absent
  /\ isSessionExpired = FALSE
  /\ has70PercentWarningBeenShown = FALSE
  /\ queuedUpdates = NoUpdates
  /\ quotaFetches = NoQuotaFetches
  /\ serverStatus = "unchecked"
  /\ upgradeClicks = 0
  /\ lastOp = [op |-> "init"]

\* the browser holds no quota figure from an earlier session
Init == InitWith(MaxInFlight, FALSE, FALSE) /\ quotaItem = NoItem

FixedInit == InitWith(MaxInFlightFixed, FALSE, FALSE) /\ quotaItem = NoItem

\* the mount effects: loadCustomServers, checkLocalServer up to its probe, and
\* the first run of the ObServer effect
Mount ==
  /\ ~mounted
  /\ mounted' = TRUE
  /\ pendingLocalChecks' = pendingLocalChecks + 1
  /\ Commit(obServerEffect(loadCustomServers(M), isUsingObServer))
  /\ CommitQuota(serverStatusEffect(
                   obServerQuotaEffect(clearQuotaEffect(Q, isUsingObServer),
                                       isUsingObServer, isAuthenticated),
                   isUsingObServer, isAuthenticated, serverStatus))
  /\ lastOp' = [op |-> "mount"]
  /\ UNCHANGED <<call, serverStatus>>
  /\ UNCHANGED <<checkVars, localServerOnline, isUsingObServer,
                 isAuthenticated, hostingContext>>

\* the page is reloaded: module and component state start over, requests in
\* flight are dropped, localStorage stays
Reload ==
  /\ mounted
  /\ MicrotasksDone
  /\ customServers' = <<>>
  /\ inferenceAddresses' = <<>>
  /\ availableModels' = <<>>
  /\ fetches' = [s \in DOMAIN fetches |-> IdleFetch]
  /\ pendingChecks' = EmptyBag
  /\ settledChecks' = <<>>
  /\ pendingLocalChecks' = 0
  /\ localServerOnline' = FALSE
  /\ isUsingObServer' = FALSE
  /\ isAuthenticated' = FALSE
  /\ mounted' = FALSE
  /\ call' = NoCall
  /\ quotaInfo' = Absent
  /\ isSessionExpired' = FALSE
  /\ has70PercentWarningBeenShown' = FALSE
  /\ queuedUpdates' = NoUpdates
  /\ quotaFetches' = NoQuotaFetches
  /\ serverStatus' = "unchecked"
  /\ upgradeClicks' = 0
  /\ lastOp' = [op |-> "reload"]
  /\ UNCHANGED <<stored, hostingContext, quotaItem>>

HandleAddCustomServer(address, apiKey) ==
  /\ mounted
  /\ MicrotasksDone
  /\ Commit(handleAddCustomServer(M, address, apiKey))
  /\ lastOp' = [op |-> "add", addr |-> address,
                existed |-> Registered(trim(address))]
  /\ UNCHANGED <<quotaItem, call>>
  /\ UNCHANGED quotaVars
  /\ UNCHANGED <<checkVars, pendingLocalChecks, localServerOnline,
                 isUsingObServer, isAuthenticated, hostingContext, mounted>>

HandleUpdateApiKey(address, apiKey) ==
  /\ mounted
  /\ MicrotasksDone
  /\ Registered(address)
  /\ Commit(updateCustomServerApiKey(M, address, apiKey))
  /\ lastOp' = [op |-> "updateApiKey", addr |-> address]
  /\ UNCHANGED <<quotaItem, call>>
  /\ UNCHANGED quotaVars
  /\ UNCHANGED <<checkVars, pendingLocalChecks, localServerOnline,
                 isUsingObServer, isAuthenticated, hostingContext, mounted>>

HandleRemoveCustomServer(address) ==
  /\ mounted
  /\ MicrotasksDone
  /\ Commit(handleRemoveCustomServer(M, address))
  /\ lastOp' = [op |-> "remove", addr |-> address,
                registered |-> Registered(address),
                active |-> address \in Range(inferenceAddresses)]
  /\ UNCHANGED <<quotaItem, call>>
  /\ UNCHANGED quotaVars
  /\ UNCHANGED <<checkVars, pendingLocalChecks, localServerOnline,
                 isUsingObServer, isAuthenticated, hostingContext, mounted>>

HandleToggleCustomServer(address) ==
  /\ mounted
  /\ MicrotasksDone
  /\ Registered(address)
  /\ Commit(handleToggleCustomServer(M, address))
  /\ lastOp' = [op |-> "toggle", addr |-> address]
  /\ UNCHANGED <<quotaItem, call>>
  /\ UNCHANGED quotaVars
  /\ UNCHANGED <<checkVars, pendingLocalChecks, localServerOnline,
                 isUsingObServer, isAuthenticated, hostingContext, mounted>>

\* handleCheckCustomServer -> checkCustomServer, up to the probe's await; the
\* check button starts a further probe of an address whose probe is awaited.
\* Up to MaxProbes probes are followed at a time.
HandleCheckCustomServer(address) ==
  /\ mounted
  /\ MicrotasksDone
  /\ Registered(address)
  /\ BagCardinality(pendingChecks) < MaxProbes
  /\ pendingChecks' = pendingChecks (+) SetToBag({address})
  /\ UNCHANGED settledChecks
  /\ lastOp' = [op |-> "check", addr |-> address]
  /\ UNCHANGED <<quotaItem, call>>
  /\ UNCHANGED quotaVars
  /\ UNCHANGED <<customServers, stored, inferenceAddresses, availableModels,
                 fetches, pendingLocalChecks, localServerOnline,
                 isUsingObServer, isAuthenticated, hostingContext, mounted>>

\* one of the probes of the address answered: checkCustomServer resumes, updates the status and
\* returns; the handler that awaits it resumes in a later microtask.  An answer
\* whose handler would need more than MaxInFlight suspended fetchModels runs
\* is not taken.
CheckCustomServerDone(address, resp) ==
  /\ BagIn(address, pendingChecks)
  /\ \/ checkCustomServer(M, address, resp).inferenceAddresses = <<>>
     \/ Cardinality(BusySlots(M)) + Len(settledChecks)
          < Cardinality(Slots(M))
  /\ pendingChecks' = pendingChecks (-) SetToBag({address})
  /\ settledChecks' = Append(settledChecks, address)
  /\ Commit(checkCustomServer(M, address, resp))
  /\ lastOp' = [op |-> "checked", addr |-> address]
  /\ UNCHANGED <<quotaItem, call>>
  /\ UNCHANGED quotaVars
  /\ UNCHANGED <<pendingLocalChecks, localServerOnline, isUsingObServer,
                 isAuthenticated, hostingContext, mounted>>

\* handleCheckCustomServer resumes after its await: setCustomServers and
\* fetchModels; the continuations run in the order the checks returned
HandleCheckCustomServerResume ==
  /\ settledChecks # <<>>
  /\ settledChecks' = Tail(settledChecks)
  /\ Commit(handleCheckCustomServerResume(M))
  /\ lastOp' = [op |-> "checkResumed", addr |-> Head(settledChecks)]
  /\ UNCHANGED <<quotaItem, call>>
  /\ UNCHANGED quotaVars
  /\ UNCHANGED <<pendingChecks, pendingLocalChecks, localServerOnline,
                 isUsingObServer, isAuthenticated, hostingContext, mounted>>

\* checkLocalServer up to the probe's await (the settings dialog's button,
\* which also starts a check while one is awaited).  Up to MaxProbes checks
\* are followed.
CheckLocalServer ==
  /\ mounted
  /\ MicrotasksDone
  /\ pendingLocalChecks < MaxProbes
  /\ pendingLocalChecks' = pendingLocalChecks + 1
  /\ lastOp' = [op |-> "checkLocal"]
  /\ UNCHANGED <<quotaItem, call>>
  /\ UNCHANGED quotaVars
  /\ UNCHANGED <<customServers, stored, inferenceAddresses, availableModels,
                 fetches, checkVars, localServerOnline, isUsingObServer,
                 isAuthenticated, hostingContext, mounted>>

\* one of the local probes answered: checkLocalServer resumes
CheckLocalServerDone(resp) ==
  /\ pendingLocalChecks > 0
  /\ pendingLocalChecks' = pendingLocalChecks - 1
  /\ localServerOnline' = (checkInferenceServer(resp) = "online")
  /\ Commit(checkLocalServer(M, resp))
  /\ lastOp' = [op |-> "checkedLocal"]
  /\ UNCHANGED <<quotaItem, call>>
  /\ UNCHANGED quotaVars
  /\ UNCHANGED <<checkVars, isUsingObServer, isAuthenticated,
                 hostingContext, mounted>>

\* handleToggleObServer, and the ObServer effect its state change triggers
HandleToggleObServer ==
  /\ mounted
  /\ MicrotasksDone
  /\ \E flush \in BOOLEAN :
       LET newValue == ~isUsingObServer
       IN IF (newValue /\ ~isAuthenticated)
             \/ (~newValue /\ hostingContext = "official-web")
          THEN \* setShowLoginMessage or setIsStartupDialogOpen: a render
               /\ UNCHANGED <<customServers, stored, inferenceAddresses,
                              availableModels, fetches, isUsingObServer>>
               /\ CommitQuota(IF flush THEN render(Q) ELSE Q)
          ELSE /\ isUsingObServer' = newValue
               /\ Commit(obServerEffect(obServerEffect(M, newValue),
                                        newValue))
               /\ CommitQuota(handleToggleObServerQuota(
                                Q, newValue, isAuthenticated, serverStatus,
                                flush))
  /\ lastOp' = [op |-> "toggleObServer"]
  /\ UNCHANGED <<call, serverStatus>>
  /\ UNCHANGED <<checkVars, pendingLocalChecks, localServerOnline,
                 isAuthenticated, hostingContext, mounted>>

\* login, logout or loss of the session changes authState.isAuthenticated:
\* AppHeader renders and the ObServer effect runs again
AuthChange ==
  /\ mounted
  /\ MicrotasksDone
  /\ isAuthenticated' = ~isAuthenticated
  /\ Commit(obServerEffect(M, isUsingObServer))
  /\ CommitQuota(serverStatusEffect(
                   obServerQuotaEffect(render(Q), isUsingObServer,
                                       ~isAuthenticated),
                   isUsingObServer, ~isAuthenticated, serverStatus))
  /\ lastOp' = [op |-> "auth"]
  /\ UNCHANGED <<call, serverStatus>>
  /\ UNCHANGED <<checkVars, pendingLocalChecks, localServerOnline,
                 isUsingObServer, hostingContext, mounted>>

\* a suspended fetchModels run gets the answer it awaits
FetchModelsResponse(s, resp) ==
  /\ fetches[s].busy
  /\ Commit(fetchModelsResume(M, s, resp))
  /\ lastOp' = IF fetches[s].idx < Len(fetches[s].arr)
               THEN [op |-> "fetched"]
               ELSE [op |-> "publish", stale |-> fetches[s].stale]
  /\ UNCHANGED <<quotaItem, call>>
  /\ UNCHANGED quotaVars
  /\ UNCHANGED <<checkVars, pendingLocalChecks, localServerOnline,
                 isUsingObServer, isAuthenticated, hostingContext, mounted>>

\* sendPrompt up to the await of fetchResponse's fetch; a call for a model that
\* is not in the catalog throws at once.  The 'quotaUpdated' event is
\* dispatched inside the call, so its listener has run and queued its update.
\* One call is in flight at a time, and the quota figure is followed down to
\* -MaxDebt.
SendPrompt(modelName, token, enableStreaming, onStreamChunk) ==
  /\ mounted
  /\ call = NoCall
  /\ LET r == sendPrompt(M, modelName)
         counted == [Q EXCEPT
                       !.quotaItem = sendPromptQuota(quotaItem, r, token)]
         dispatched == sendPromptDispatched(quotaItem, r, token)
     IN /\ lastOp' = [op |-> "send", name |-> modelName, found |-> r.found,
                      server |-> r.server, token |-> token,
                      quotaBefore |-> quotaItem, dispatched |-> dispatched]
        /\ CommitQuota(IF dispatched THEN handleQuotaUpdate(counted)
                       ELSE counted)
        /\ call' = IF r.found
                   THEN Pending(fetchResponseRequest(
                                  M, r.server, modelName, token,
                                  enableStreaming, onStreamChunk))
                   ELSE call
  /\ quotaItem' # NoItem => quotaItem'[1] >= -MaxDebt
  /\ UNCHANGED <<customServers, stored, inferenceAddresses, availableModels,
                 fetches, checkVars, pendingLocalChecks, localServerOnline,
                 isUsingObServer, isAuthenticated, hostingContext, mounted,
                 serverStatus>>

\* the fetch of the call in flight is answered: fetchResponse runs to its end
\* and sendPrompt passes its value or its error on
FetchResponseDone(resp) ==
  /\ call # NoCall
  /\ call' = sendPromptSettle(call[1], resp).call
  /\ lastOp' = [op |-> "response", request |-> call[1], resp |-> resp,
                result |-> sendPromptSettle(call[1], resp).result]
  /\ UNCHANGED <<customServers, stored, inferenceAddresses, availableModels,
                 fetches, checkVars, pendingLocalChecks, localServerOnline,
                 isUsingObServer, isAuthenticated, hostingContext, mounted,
                 quotaItem>>
  /\ UNCHANGED quotaVars

\* fetchResponse called on its own, from its request to its end
FetchResponse(serverAddress, token, enableStreaming, resp) ==
  /\ LET request == fetchResponseRequest(M, serverAddress, "m1", token,
                                         enableStreaming, TRUE)
     IN lastOp' = [op |-> "fetchResponse", request |-> request, resp |-> resp,
                   result |-> fetchResponse(request, resp)]
  /\ UNCHANGED <<customServers, stored, inferenceAddresses, availableModels,
                 fetches, checkVars, pendingLocalChecks, localServerOnline,
                 isUsingObServer, isAuthenticated, hostingContext, mounted,
                 quotaItem, call>>
  /\ UNCHANGED quotaVars

\* handleStreamingResponse applied to the chunks read from a response body
HandleStreamingResponse(frames, cuts, onStreamChunk) ==
  /\ lastOp' = [op |-> "stream", frames |-> frames, cuts |-> cuts,
                onStreamChunk |-> onStreamChunk,
                result |-> handleStreamingResponse(
                             Present(Chunks(Wire(frames), cuts)),
                             onStreamChunk)]
  /\ UNCHANGED <<customServers, stored, inferenceAddresses, availableModels,
                 fetches, checkVars, pendingLocalChecks, localServerOnline,
                 isUsingObServer, isAuthenticated, hostingContext, mounted,
                 quotaItem, call>>
  /\ UNCHANGED quotaVars

\* a suspended fetchQuotaInfo run gets the answer it awaits
FetchQuotaInfoDone(shown, answer) ==
  /\ quotaFetches[shown] > 0
  /\ CommitQuota(fetchQuotaInfoResume(Q, shown, answer))
  /\ lastOp' = [op |-> "quota", answer |-> answer,
                quotaBefore |-> quotaItem,
                expiredBefore |-> queuedIsSessionExpired(Q)]
  /\ UNCHANGED <<customServers, stored, inferenceAddresses, availableModels,
                 fetches, checkVars, pendingLocalChecks, localServerOnline,
                 isUsingObServer, isAuthenticated, hostingContext, mounted,
                 call, serverStatus>>

\* React renders the updates queued by callbacks that ran outside its event
\* handlers
Render ==
  /\ mounted
  /\ MicrotasksDone
  /\ queuedUpdates # NoUpdates
  /\ CommitQuota(render(Q))
  /\ lastOp' = [op |-> "render", shownBefore |-> has70PercentWarningBeenShown,
                clicksBefore |-> upgradeClicks]
  /\ UNCHANGED <<customServers, stored, inferenceAddresses, availableModels,
                 fetches, checkVars, pendingLocalChecks, localServerOnline,
                 isUsingObServer, isAuthenticated, hostingContext, mounted,
                 call, serverStatus>>

\* the parent passes a new serverStatus: AppHeader renders and the effect of
\* serverStatus runs
ServerStatusChange(status) ==
  /\ mounted
  /\ MicrotasksDone
  /\ status # serverStatus
  /\ serverStatus' = status
  /\ CommitQuota(serverStatusEffect(render(Q), isUsingObServer,
                                    isAuthenticated, status))
  /\ lastOp' = [op |-> "serverStatus"]
  /\ UNCHANGED <<customServers, stored, inferenceAddresses, availableModels,
                 fetches, checkVars, pendingLocalChecks, localServerOnline,
                 isUsingObServer, isAuthenticated, hostingContext, mounted,
                 call>>

\* checkInferenceServer called on its own, from its call to its return
CheckInferenceServer(address, apiKey, answers) ==
  /\ LET c == checkInferenceServerCall(address, apiKey, answers)
     IN lastOp' = [op |-> "probe", address |-> address, apiKey |-> apiKey,
                   answers |-> answers, requests |-> c.requests,
                   result |-> c.result]
  /\ UNCHANGED <<customServers, stored, inferenceAddresses, availableModels,
                 fetches, checkVars, pendingLocalChecks, localServerOnline,
                 isUsingObServer, isAuthenticated, hostingContext, mounted,
                 quotaItem, call>>
  /\ UNCHANGED quotaVars

\* a caller other than AppHeader's handlers calls a registry function and
\* keeps the list it returns
RegistryCall(fn, address) ==
  /\ Commit(registryCall(M, fn, address))
  /\ lastOp' = [op |-> "registryCall", fn |-> fn, addr |-> address,
                array |-> returnedArray(M, fn, address),
                before |-> customServers, storedBefore |-> stored]
  /\ UNCHANGED <<checkVars, pendingLocalChecks, localServerOnline,
                 isUsingObServer, isAuthenticated, hostingContext, mounted,
                 quotaItem, call>>
  /\ UNCHANGED quotaVars

\* a caller other than AppHeader calls clearInferenceAddresses
ClearInferenceAddresses ==
  /\ Commit(clearInferenceAddresses(M))
  /\ lastOp' = [op |-> "clear", before |-> inferenceAddresses]
  /\ UNCHANGED <<checkVars, pendingLocalChecks, localServerOnline,
                 isUsingObServer, isAuthenticated, hostingContext, mounted,
                 quotaItem, call>>
  /\ UNCHANGED quotaVars

\* the caller mutates the list the last call handed to it
CallerMutates(mutation) ==
  /\ lastOp.op = "registryCall"
  /\ customServers' = callerMutates(customServers, lastOp.array, mutation)
  /\ Len(customServers') <= MaxServers
  /\ lastOp' = [op |-> "callerMutates", fn |-> lastOp.fn,
                array |-> lastOp.array, mutation |-> mutation,
                before |-> customServers]
  /\ UNCHANGED <<stored, inferenceAddresses, availableModels, fetches,
                 checkVars, pendingLocalChecks, localServerOnline,
                 isUsingObServer, isAuthenticated, hostingContext, mounted,
                 quotaItem, call>>
  /\ UNCHANGED quotaVars

FetchModelsResponses ==
  \E s \in BusySlots(M) :
    \E resp \in ModelsResponses(fetches[s].arr[fetches[s].idx]) :
      FetchModelsResponse(s, resp)

\* a session of custom backends: the user stays signed out, the local probe
\* started at mount is still unanswered, no credential is entered.  The user
\* registers and checks the backends a and b, also while a check is awaited,
\* disables and enables a, and removes b.
Next ==
  \/ Mount
  \/ Reload
  \/ \E address \in AddrInputs : HandleAddCustomServer(address, NoKey)
  \/ HandleRemoveCustomServer(AddrB)
  \/ HandleToggleCustomServer(AddrA)
  \/ \E address \in CustomAddrs : HandleCheckCustomServer(address)
  \/ \E address \in CustomAddrs, resp \in ProbeResponses :
       CheckCustomServerDone(address, resp)
  \/ HandleCheckCustomServerResume
  \/ FetchModelsResponses

Spec == Init /\ [][Next]_vars

\* the same session with completions sent
RouteNext ==
  \/ Next
  \/ \E modelName \in CustomModelNames :
       SendPrompt(modelName, NoToken, FALSE, FALSE)
  \/ FetchResponseDone(HttpResponse(200, Completion("Hello"), Absent))

RouteSpec == Init /\ [][RouteNext]_vars

\* a session in which credentials are entered and no health check is run
CredentialNext ==
  \/ Mount
  \/ Reload
  \/ \E address \in AddrInputs, apiKey \in KeyInputs :
       HandleAddCustomServer(address, apiKey)
  \/ \E address \in CustomAddrs, apiKey \in {"", "k1", "k2"} :
       HandleUpdateApiKey(address, apiKey)
  \/ \E address \in CustomAddrs : HandleRemoveCustomServer(address)
  \/ \E address \in CustomAddrs : HandleToggleCustomServer(address)

CredentialSpec == Init /\ [][CredentialNext]_vars

\* a session of the fixed backends: the cloud backend and the local one
FixedNext ==
  \/ Mount
  \/ Reload
  \/ CheckLocalServer
  \/ \E resp \in ProbeResponses : CheckLocalServerDone(resp)
  \/ HandleToggleObServer
  \/ AuthChange
  \/ FetchModelsResponses
  \/ \E shown \in BOOLEAN : FetchQuotaInfoDone(shown, QuotaNetworkError)

FixedSpec == FixedInit /\ [][FixedNext]_vars

\* fetchResponse on every answer, one call in a behaviour
ResponseNext ==
  /\ lastOp.op = "init"
  /\ \E serverAddress \in ServerAddresses, token \in TokenInputs,
        enableStreaming \in BOOLEAN, resp \in CompletionResponses :
       FetchResponse(serverAddress, token, enableStreaming, resp)

ResponseSpec == Init /\ [][ResponseNext]_vars

\* handleStreamingResponse on every stream of up to MaxFrames lines, cut into
\* chunks at up to MaxCuts places, one stream in a behaviour
StreamNext ==
  /\ lastOp.op = "init"
  /\ \E frames \in FrameSeqs, onStreamChunk \in BOOLEAN :
       \E cuts \in CutSets(Len(Wire(frames)) - 1, MaxCuts) :
         HandleStreamingResponse(frames, cuts, onStreamChunk)

StreamSpec == Init /\ [][StreamNext]_vars

\* a session in which a caller holding a session token sends completions to
\* custom backends, one of which holds a credential; the health checks of the
\* custom backends are answered 2xx; the browser holds a quota figure from an
\* earlier session
SendInit == InitWith(MaxInFlight, FALSE, FALSE) /\ quotaItem = Item(1)

SendNext ==
  \/ Mount
  \/ HandleAddCustomServer(AddrA, "k1")
  \/ HandleAddCustomServer(AddrEvil, NoKey)
  \/ \E address \in SendAddrs : HandleCheckCustomServer(address)
  \/ \E address \in SendAddrs : CheckCustomServerDone(address, "ok")
  \/ HandleCheckCustomServerResume
  \/ FetchModelsResponses
  \/ \E modelName \in SendModelNames :
       SendPrompt(modelName, "t1", FALSE, FALSE)
  \/ \E resp \in SendResponses : FetchResponseDone(resp)

SendSpec == SendInit /\ [][SendNext]_vars

\* a session of the cloud backend: the user signs in and out, switches the
\* cloud backend on and off, the serverStatus prop changes and quota refreshes
\* are answered in every way; the backends answer every GET /v1/models with
\* their models
QuotaInit == InitWith(MaxInFlightFixed, FALSE, FALSE) /\ quotaItem = NoItem

QuotaNext ==
  \/ Render
  \/ Mount
  \/ AuthChange
  \/ HandleToggleObServer
  \/ \E status \in {"online", "offline"} : ServerStatusChange(status)
  \/ \E s \in BusySlots(M) :
       FetchModelsResponse(
         s, [kind |-> "ok",
             data |-> RemoteModels(fetches[s].arr[fetches[s].idx])])
  \/ \E shown \in BOOLEAN, answer \in QuotaAnswers :
       FetchQuotaInfoDone(shown, answer)

QuotaSpec == QuotaInit /\ [][QuotaNext]_vars

\* a session of a signed-in user whose page mounts AppHeader with the cloud
\* backend on (the isUsingObServer prop): completions are sent with the
\* session token, or with an empty one, to the cloud model and to a model that
\* is not in the catalog; the serverStatus prop changes, and quota refreshes
\* are answered with figures or with 401
DecrementInit == InitWith(MaxInFlightFixed, TRUE, TRUE) /\ quotaItem = NoItem

DecrementNext ==
  \/ Render
  \/ Mount
  \/ \E status \in {"online", "offline"} : ServerStatusChange(status)
  \/ FetchModelsResponses
  \/ \E shown \in BOOLEAN :
       \/ FetchQuotaInfoDone(shown, QuotaResponse(401, Absent))
       \/ FetchQuotaInfoDone(
            shown,
            QuotaResponse(200, Present(QuotaData("free", Present(1),
                                                 Present(2)))))
  \/ \E modelName \in {"c1", "nope"}, token \in {"t1", ""} :
       SendPrompt(modelName, token, FALSE, FALSE)
  \/ FetchResponseDone(HttpResponse(200, Completion("Hello"), Absent))

DecrementSpec == DecrementInit /\ [][DecrementNext]_vars

\* a session in which the user signs in, switches the cloud backend on, and
\* the first quota refresh to be answered brings any snapshot of
\* ThresholdData; completions sent afterwards count the figure down
ThresholdNext ==
  \/ lastOp.op = "init" /\ Mount
  \/ lastOp.op = "mount" /\ AuthChange
  \/ lastOp.op = "auth" /\ HandleToggleObServer
  \/ Render
  \/ FetchModelsResponses
  \/ /\ queuedQuotaInfo(Q) = Absent
     /\ \E data \in ThresholdData :
          FetchQuotaInfoDone(FALSE, QuotaResponse(200, Present(data)))
  \/ SendPrompt("c1", "t1", FALSE, FALSE)
  \/ FetchResponseDone(HttpResponse(200, Completion("Hello"), Absent))

ThresholdSpec == QuotaInit /\ [][ThresholdNext]_vars

\* a session of two custom backends to which completions are sent and
\* answered in every failing way; the health checks are answered 2xx
DispatchNext ==
  \/ Mount
  \/ \E address \in {AddrA, AddrB} : HandleAddCustomServer(address, NoKey)
  \/ \E address \in CustomAddrs : HandleCheckCustomServer(address)
  \/ \E address \in CustomAddrs : CheckCustomServerDone(address, "ok")
  \/ HandleCheckCustomServerResume
  \/ FetchModelsResponses
  \/ \E modelName \in CustomModelNames :
       SendPrompt(modelName, NoToken, FALSE, FALSE)
  \/ \E resp \in DispatchResponses : FetchResponseDone(resp)

DispatchSpec == Init /\ [][DispatchNext]_vars

\* a session in which a caller uses the registry functions directly and
\* mutates the lists they return
SnapshotNext ==
  \/ Mount
  \/ Reload
  \/ /\ mounted
     /\ \E fn \in RegistryFunctions, address \in AddrInputs :
          RegistryCall(fn, address)
  \/ \E mutation \in CallerMutations : CallerMutates(mutation)

SnapshotSpec == Init /\ [][SnapshotNext]_vars

\* the registry functions called on the module as it is, before or after
\* AppHeader's mount effect has run loadCustomServers
RegistryNext ==
  \/ Mount
  \/ Reload
  \/ \E fn \in RegistryFunctions, address \in AddrInputs :
       RegistryCall(fn, address)

RegistrySpec == Init /\ [][RegistryNext]_vars

\* a session of two custom backends whose health checks may be answered in
\* the same turn of the event loop, in which a caller also empties the active
\* address list with clearInferenceAddresses
AddressNext ==
  \/ Mount
  \/ \E address \in CustomAddrs : HandleAddCustomServer(address, NoKey)
  \/ \E address \in CustomAddrs : HandleCheckCustomServer(address)
  \/ \E address \in CustomAddrs, resp \in ProbeResponses :
       CheckCustomServerDone(address, resp)
  \/ HandleCheckCustomServerResume
  \/ FetchModelsResponses
  \/ ClearInferenceAddresses

AddressSpec == FixedInit /\ [][AddressNext]_vars

\* a session in which the user registers a custom backend at the address of
\* the local backend, next to the local backend itself
CollisionNext ==
  \/ Mount
  \/ CheckLocalServer
  \/ \E resp \in ProbeResponses : CheckLocalServerDone(resp)
  \/ HandleAddCustomServer(LOCAL_SERVER_ADDRESS, NoKey)
  \/ HandleRemoveCustomServer(LOCAL_SERVER_ADDRESS)
  \/ HandleToggleCustomServer(LOCAL_SERVER_ADDRESS)
  \/ HandleCheckCustomServer(LOCAL_SERVER_ADDRESS)
  \/ \E resp \in ProbeResponses :
       CheckCustomServerDone(LOCAL_SERVER_ADDRESS, resp)
  \/ HandleCheckCustomServerResume
  \/ FetchModelsResponses

CollisionSpec == FixedInit /\ [][CollisionNext]_vars

\* checkInferenceServer on every address, credential and pair of answers,
\* one call in a behaviour
ProbeNext ==
  /\ lastOp.op = "init"
  /\ \E address \in ServerAddresses, apiKey \in ProbeKeys,
        first \in ProbeAnswers, second \in ProbeAnswers :
       CheckInferenceServer(address, apiKey, <<first, second>>)

ProbeSpec == Init /\ [][ProbeNext]_vars

\* the backend that may leave a request unanswered for ever
Unresponsive == AddrB

\* every backend but Unresponsive answers a suspended fetchModels run
AnsweredResponse(s) ==
  /\ fetches[s].busy
  /\ fetches[s].arr[fetches[s].idx] # Unresponsive
  /\ \E resp \in ModelsResponses(fetches[s].arr[fetches[s].idx]) :
       FetchModelsResponse(s, resp)

FairSpec ==
  /\ Init
  /\ [][Next]_vars
  /\ \A s \in 1..MaxInFlight : WF_vars(AnsweredResponse(s))
  /\ WF_vars(HandleCheckCustomServerResume)

\* every backend but Unresponsive answers the probe of a health check
AnsweredProbe(address) ==
  /\ address # Unresponsive
  /\ \E resp \in ProbeResponses : CheckCustomServerDone(address, resp)

\* the session of custom backends in which every request but those to
\* Unresponsive is answered; no timer ends a fetch that is not answered
ProbeFairSpec ==
  /\ Init
  /\ [][Next]_vars
  /\ \A s \in 1..MaxInFlight : WF_vars(AnsweredResponse(s))
  /\ WF_vars(HandleCheckCustomServerResume)
  /\ \A address \in CustomAddrs : WF_vars(AnsweredProbe(address))

\* ------------------------------------------------------------------ claims
ActiveSet == Range(inferenceAddresses)

UniqueAddresses(servers) ==
  \A i, j \in DOMAIN servers : servers[i].address = servers[j].address => i = j

EntriesFor(servers, address) ==
  { i \in DOMAIN servers : servers[i].address = address }

\* C1: for every reachable registry and every address, addCustomServer called
\* twice leaves the registry and the persisted list exactly as one call does,
\* with a single entry for the (trimmed) address, whatever credentials the two
\* calls carry.
C1_AddTwiceIsAddOnce ==
  \A address \in AddrInputs, k1 \in KeyInputs, k2 \in KeyInputs :
    LET once == addCustomServer(M, address, k1)
        twice == addCustomServer(once, address, k2)
    IN /\ twice.customServers = once.customServers
       /\ twice.stored = once.stored
       /\ Cardinality(EntriesFor(twice.customServers, trim(address))) = 1

\* a repeated add of an address whose entry holds a credential has run
C1_Witness ==
  /\ lastOp.op = "add"
  /\ lastOp.existed
  /\ \E i \in DOMAIN customServers :
       /\ customServers[i].address = trim(lastOp.addr)
       /\ customServers[i].apiKey # NoKey

\* C2: in every reachable state no two entries of the custom-server registry
\* have the same address, in memory and in the persisted list.
C2_AddressUnique ==
  /\ UniqueAddresses(customServers)
  /\ stored # NoItem => UniqueAddresses(JSONparse(stored[1]))

\* an address was added again, with trailing whitespace, to a registry of two
C2_Witness ==
  /\ lastOp.op = "add"
  /\ lastOp.existed
  /\ lastOp.addr = AddrAPadded
  /\ Len(customServers) = 2

\* C3: right after removeCustomServer(a), a is neither in the registry nor in
\* the active address set.
C3_RemoveRetracts ==
  lastOp.op = "remove" =>
    /\ ~Registered(lastOp.addr)
    /\ lastOp.addr \notin ActiveSet

\* a registered, active address was removed
C3_Witness ==
  /\ lastOp.op = "remove"
  /\ lastOp.registered
  /\ lastOp.active

\* C4: in every reachable state a custom backend's address is in the active
\* set if and only if the backend is enabled and its health is online.
C4_ActiveIffEnabledOnline ==
  \A i \in DOMAIN customServers :
    (customServers[i].address \in ActiveSet)
      <=> (customServers[i].enabled /\ customServers[i].status = "online")

\* C5: the cloud address is in the active set only while the cloud backend is
\* enabled and the caller is authenticated.
C5_CloudOnlyWhenAuthenticated ==
  OB_SERVER_ADDRESS \in ActiveSet => (isUsingObServer /\ isAuthenticated)

\* the backend at this address is enabled now
EnabledBackend(address) ==
  \/ address = LOCAL_SERVER_ADDRESS
  \/ address = OB_SERVER_ADDRESS /\ isUsingObServer
  \/ \E i \in DOMAIN customServers :
       customServers[i].address = address /\ customServers[i].enabled

\* C6: sendPrompt dispatches only to a backend that is, at the moment of the
\* dispatch, registered and enabled.
C6_SendOnlyToEnabled ==
  (lastOp.op = "send" /\ lastOp.found) => EnabledBackend(lastOp.server)

\* C7: the catalog a fetchModels run publishes lists the backends' models in
\* registration order, each model of its backend's list and tagged with it.
C7_CatalogInRegistrationOrder ==
  lastOp.op = "publish" =>
    /\ \A i \in DOMAIN availableModels :
         availableModels[i].name \in Range(RemoteModels(availableModels[i].server))
    /\ \A i, j \in DOMAIN availableModels :
         (/\ i < j
          /\ Registered(availableModels[i].server)
          /\ Registered(availableModels[j].server))
         => find(customServers, availableModels[i].server)
              <= find(customServers, availableModels[j].server)

\* the catalog has a model of this name from this backend
Exposes(address, modelName) ==
  \E i \in DOMAIN availableModels :
    availableModels[i].server = address /\ availableModels[i].name = modelName

\* C8: when a model name is exposed by two active backends, sendPrompt's
\* lookup by name resolves to the backend that was registered first.
C8_FirstRegisteredWins ==
  (/\ lastOp.op = "send"
   /\ lastOp.name = "x"
   /\ {AddrA, AddrB} \subseteq ActiveSet
   /\ Exposes(AddrA, "x")
   /\ Exposes(AddrB, "x"))
  => lastOp.server =
       (IF find(customServers, AddrA) < find(customServers, AddrB)
        THEN AddrA ELSE AddrB)

\* C9: a catalog refresh over a backend that answers and one that leaves its
\* request unanswered still eventually completes.
C9_RefreshCompletes ==
  \A s \in 1..MaxInFlight :
    (fetches[s].busy /\ AddrA \in Range(fetches[s].arr)) ~> ~fetches[s].busy

\* C10: a refresh that completes after a refresh started later has been
\* applied does not overwrite the catalog.
C10_NoStaleOverwrite ==
  lastOp.op = "publish" => ~lastOp.stale

\* C11: what listModels returns changes only to the complete result of a
\* fetchModels run that finishes in that step (the run has merged the answer
\* of every address of its list), or to the empty catalog of a run over no
\* address; while a run is in flight its partial result is never published.
C11_NoPartialCatalog ==
  [][listModels(M)' # listModels(M) =>
       \/ availableModels' = <<>> /\ inferenceAddresses' = <<>>
       \/ \E s \in BusySlots(M) :
            /\ fetches[s].idx = Len(fetches[s].arr)
            /\ ~fetches'[s].busy
            /\ \E resp \in ModelsResponses(fetches[s].arr[fetches[s].idx]) :
                 availableModels' =
                   fetches[s].acc
                     \o listModelsFromAddress(fetches[s].arr[fetches[s].idx],
                                              resp)]_vars

\* a run in flight has merged part of its answers while the catalog holds the
\* result of an earlier run
C11_Witness ==
  \E s \in DOMAIN fetches :
    /\ fetches[s].busy
    /\ fetches[s].acc # <<>>
    /\ availableModels # <<>>
    /\ availableModels # fetches[s].acc

\* the handler that took m0 to m1 started a fetchModels run on the address
\* list as it left it: a run over no address has completed with the empty
\* catalog, or a slot that was free holds a run at the first address
RefreshStarted(m0, m1) ==
  \/ m1.inferenceAddresses = <<>> /\ m1.availableModels = <<>>
  \/ \E s \in Slots(m1) :
       /\ ~m0.fetches[s].busy
       /\ m1.fetches[s].busy
       /\ m1.fetches[s].arr = m1.inferenceAddresses
       /\ m1.fetches[s].idx = 1
       /\ m1.fetches[s].acc = <<>>

\* a handler that changes the membership of the active set starts a refresh
RefreshFollows(m1) ==
  (~m1.overflow /\ Range(m1.inferenceAddresses) # ActiveSet)
    => RefreshStarted(M, m1)

\* C12: in every reachable state, each operation that changes the membership
\* of the active set (add, remove or toggle of a custom backend, the result
\* of a custom or of the local health check, the cloud backend enabled or
\* disabled) also starts a fetchModels run, which reads the address list
\* after the change.  The result of a custom health check takes effect when
\* checkCustomServer returns; the handler that awaited it is then queued, and
\* its continuation starts the run.
C12_RefreshFollowsMembership ==
  /\ \A address \in AddrInputs, apiKey \in KeyInputs :
       RefreshFollows(handleAddCustomServer(M, address, apiKey))
  /\ \A address \in CustomAddrs :
       /\ RefreshFollows(handleRemoveCustomServer(M, address))
       /\ RefreshFollows(handleToggleCustomServer(M, address))
  /\ lastOp.op = "checked" =>
       /\ settledChecks # <<>>
       /\ settledChecks[Len(settledChecks)] = lastOp.addr
  /\ settledChecks # <<>> =>
       LET m1 == handleCheckCustomServerResume(M)
       IN ~m1.overflow => RefreshStarted(M, m1)
  /\ \A resp \in ProbeResponses : RefreshFollows(checkLocalServer(M, resp))
  /\ \A usingObServer \in BOOLEAN :
       RefreshFollows(obServerEffect(M, usingObServer))

\* a toggle has put a second backend into the active set and its refresh is
\* at the first address of the new list
C12_Witness ==
  /\ lastOp.op = "toggle"
  /\ lastOp.addr \in ActiveSet
  /\ Len(inferenceAddresses) = 2
  /\ \E s \in DOMAIN fetches :
       /\ fetches[s].busy
       /\ fetches[s].arr = inferenceAddresses
       /\ fetches[s].idx = 1

\* C13: right after a sendPrompt call for a model name that is not in the
\* catalog (the call throws at the lookup), no request is in flight and the
\* cached quota figure is what it was before the call.
C13_UnknownModelNoEffect ==
  (lastOp.op = "send" /\ ~lastOp.found) =>
    /\ call = NoCall
    /\ quotaItem = lastOp.quotaBefore

\* a call with a session token named an unknown model while the catalog held
\* a model of a backend whose sends are counted and a quota figure was cached
C13_Witness ==
  /\ lastOp.op = "send"
  /\ ~lastOp.found
  /\ truthy(lastOp.token)
  /\ quotaItem # NoItem
  /\ \E i \in DOMAIN availableModels :
       includes(availableModels[i].server, "api.observer-ai.com")

\* C14: a request dispatched to any backend other than the fixed cloud
\* backend carries that backend's own stored credential or none, and never
\* the caller's session token.
C14_TokenOnlyToCloud ==
  (lastOp.op = "send" /\ lastOp.found /\ lastOp.server # OB_SERVER_ADDRESS) =>
    /\ call[1].authorization = getCustomServerApiKey(M, lastOp.server)
    /\ call[1].authorization # lastOp.token

\* the lines before the first [DONE], all of them when there is none
RECURSIVE BeforeDone(_)
BeforeDone(frames) ==
  IF frames = <<>> \/ Head(frames) = DoneFrame THEN <<>>
  ELSE <<Head(frames)>> \o BeforeDone(Tail(frames))

\* a data line whose payload is a JSON object with delta content
WellFormed(frame) ==
  Len(frame) = 4 /\ frame[1] = "data: " /\ frame[2] = "{" /\ frame[4] = "}"

\* the delta contents of the well-formed lines, in order
Contents(frames) ==
  LET wellFormed == SelectSeq(frames, WellFormed)
  IN [ i \in DOMAIN wellFormed |-> wellFormed[i][3] ]

RECURSIVE Concat(_)
Concat(texts) ==
  IF texts = <<>> THEN "" ELSE Head(texts) \o Concat(Tail(texts))

\* C15: the returned text is the concatenation, in order, of the delta
\* content of every well-formed data line before the first [DONE], and the
\* chunk callback is called once for each of those lines whose content is not
\* empty, in the same order, however the stream is read in chunks.
C15_StreamConcatenates ==
  lastOp.op = "stream" =>
    LET contents == Contents(BeforeDone(lastOp.frames))
    IN /\ lastOp.result.value = Present(Concat(contents))
       /\ lastOp.onStreamChunk =>
            lastOp.result.callbacks = SelectSeq(contents, LAMBDA c : c # "")

\* the lines up to and with the first [DONE], all of them when there is none
UpToDone(frames) ==
  IF Len(BeforeDone(frames)) < Len(frames)
  THEN Append(BeforeDone(frames), DoneFrame)
  ELSE frames

\* C16: a [DONE] line ends the stream with the text accumulated so far: the
\* call returns (it does not throw) what it returns when the stream, read in
\* the same chunks, stops after its first [DONE] line, so that no line after
\* it reaches the text or the callback; a stream without [DONE] returns the
\* text accumulated from all its lines.
C16_DoneEndsStream ==
  lastOp.op = "stream" =>
    LET wire == Wire(UpToDone(lastOp.frames))
    IN /\ lastOp.result.error = "none"
       /\ lastOp.result =
            handleStreamingResponse(
              Present(Chunks(wire, { p \in lastOp.cuts : p < Len(wire) })),
              lastOp.onStreamChunk)

\* a data line whose payload is no JSON, or JSON without delta content
Malformed(frame) == frame \in {TruncatedFrame, NoDeltaFrame}

\* C17: for a stream that holds a malformed line, the call returns what it
\* returns for the same stream without its malformed lines: such a line adds
\* no text and no callback and does not end the stream, and every later
\* well-formed line is processed.
C17_MalformedSkipped ==
  (/\ lastOp.op = "stream"
   /\ \E i \in DOMAIN lastOp.frames : Malformed(lastOp.frames[i])) =>
    lastOp.result =
      handleStreamingResponse(
        Present(<<Wire(SelectSeq(lastOp.frames, LAMBDA f : ~Malformed(f)))>>),
        lastOp.onStreamChunk)

\* C18: a completion response with status 429 makes fetchResponse throw the
\* UnauthorizedError kind ("Access denied. Quota may be exceeded."), never
\* the generic Error, whether the call streams or not and whatever the
\* backend.
C18_QuotaExceededOn429 ==
  (lastOp.op = "fetchResponse" /\ ~lastOp.resp.failed
     /\ lastOp.resp.status = 429) =>
    lastOp.result.error = "UnauthorizedError"

\* a streaming call to a custom backend was answered with 429
C18_Witness ==
  /\ lastOp.op = "fetchResponse"
  /\ lastOp.resp.status = 429
  /\ lastOp.request.stream
  /\ lastOp.request.server = AddrA
  /\ lastOp.result.error = "UnauthorizedError"

\* C19: a completion response with status 401 makes fetchResponse throw an
\* error of a kind other than the one a generic backend failure (status 500)
\* gives.
C19_UnauthorizedOn401 ==
  (lastOp.op = "fetchResponse" /\ ~lastOp.resp.failed
     /\ lastOp.resp.status = 401) =>
    lastOp.result.error #
      fetchResponse(lastOp.request,
                    HttpResponse(500, lastOp.resp.json, lastOp.resp.body)).error

\* the body has choices[0].message.content
HasContent(data) ==
  /\ data.valid
  /\ ~data.isNull
  /\ data.choices # Absent
  /\ data.choices[1] # <<>>
  /\ data.choices[1][1].message # Absent
  /\ data.choices[1][1].message[1].content # Absent

\* C20: for a non-streaming call answered with a 2xx status, a JSON body in
\* which choices, choices[0], choices[0].message or the content is absent
\* makes the call throw Error("Unexpected API response structure"); every
\* failure is a thrown error, and a call that returns, returns exactly
\* choices[0].message.content.
C20_MalformedBodyThrows ==
  (lastOp.op = "fetchResponse" /\ ~lastOp.resp.failed
     /\ lastOp.resp.status \in 200..299 /\ ~lastOp.request.stream) =>
    LET data == lastOp.resp.json
        result == lastOp.result
    IN /\ (data.valid /\ ~data.isNull /\ ~HasContent(data)) =>
            /\ result.error = "Error"
            /\ result.message = "Unexpected API response structure"
       /\ (result.error # "none") = (result.value = Absent)
       /\ result.error = "none" =>
            /\ HasContent(data)
            /\ result.value = data.choices[1][1].message[1].content

\* a 200 body whose message has no content made the call throw
C20_Witness ==
  /\ lastOp.op = "fetchResponse"
  /\ lastOp.resp.status = 200
  /\ ~lastOp.request.stream
  /\ lastOp.resp.json = Data(Present(<<Choice(Present(Message(Absent)))>>))
  /\ lastOp.result.error = "Error"

\* C21: a sendPrompt call changes the cached quota figure only when the
\* resolved backend is the fixed cloud backend and a session token was
\* supplied, and then by exactly one; a send to any other backend leaves the
\* figure as it was.
C21_DecrementOnlyForCloud ==
  lastOp.op = "send" =>
    IF lastOp.found /\ lastOp.server = OB_SERVER_ADDRESS
       /\ truthy(lastOp.token) /\ lastOp.quotaBefore # NoItem
    THEN quotaItem = Item(lastOp.quotaBefore[1] - 1)
    ELSE quotaItem = lastOp.quotaBefore

\* C22: a sendPrompt call that reaches optimisticUpdateQuota while no quota
\* figure is cached leaves the cache absent (no figure, negative or other,
\* appears) and dispatches no 'quotaUpdated' notification.
C22_NoCacheNoOp ==
  (/\ lastOp.op = "send"
   /\ lastOp.found
   /\ includes(lastOp.server, "api.observer-ai.com")
   /\ truthy(lastOp.token)
   /\ lastOp.quotaBefore = NoItem) =>
    /\ quotaItem = NoItem
    /\ ~lastOp.dispatched

\* a completion was dispatched to the cloud backend with a session token
\* while nothing was cached
C22_Witness ==
  /\ lastOp.op = "send"
  /\ lastOp.found
  /\ lastOp.server = OB_SERVER_ADDRESS
  /\ truthy(lastOp.token)
  /\ lastOp.quotaBefore = NoItem
  /\ call # NoCall

\* C23: a quota refresh answered with HTTP 401 sets the session-expired flag
\* (the next render shows it) and leaves the cached remaining figure exactly
\* as it was before the refresh.
C23_Expired401KeepsCache ==
  (lastOp.op = "quota" /\ lastOp.answer.kind = "http"
   /\ lastOp.answer.status = 401) =>
    /\ queuedIsSessionExpired(Q)
    /\ quotaItem = lastOp.quotaBefore

\* C24: a quota refresh that fails in another way than HTTP 401 (another
\* status outside 2xx, a transport error, no token) leaves no snapshot and
\* changes neither the cached remaining figure nor the session-expired flag,
\* the snapshot and the flag being those the next render shows.
C24_OtherFailureKeepsCacheAndFlag ==
  (/\ lastOp.op = "quota"
   /\ \/ lastOp.answer.kind # "http"
      \/ lastOp.answer.status \notin (200..299) \cup {401}) =>
    /\ queuedQuotaInfo(Q) = Absent
    /\ quotaItem = lastOp.quotaBefore
    /\ queuedIsSessionExpired(Q) = lastOp.expiredBefore

\* C25: the session-expired flag, once set, is cleared only by a quota
\* refresh that is answered 200; the flag is the one the next render shows, so
\* the step that clears it is the one that calls setIsSessionExpired(false).
C25_ExpiredSticky ==
  [][(queuedIsSessionExpired(Q) /\ ~queuedIsSessionExpired(Q)') =>
       /\ lastOp'.op = "quota"
       /\ lastOp'.answer.kind = "http"
       /\ lastOp'.answer.status = 200]_vars

\* C26: onUpgradeClick is called at most once between two page loads.
C26_UpgradeAtMostOnce == upgradeClicks <= 1

\* a snapshot of a plan that is not pro, max or plus, with a positive limit
\* of which at least half is used
Qualifies(data) ==
  /\ data.tier \notin {"pro", "max", "plus"}
  /\ data.limit # Absent
  /\ data.remaining # Absent
  /\ data.limit[1] > 0
  /\ 2 * (data.limit[1] - data.remaining[1]) >= data.limit[1]

\* C27: while the first snapshots of a session are shown (the first refresh
\* answered and the optimistic decrements that follow it), onUpgradeClick has
\* been called, once, exactly when the snapshot is of a plan other than pro,
\* max and plus, has a positive limit and (limit - remaining) / limit >= 0.5.
C27_UpgradeAtHalf ==
  quotaInfo # Absent =>
    upgradeClicks = (IF Qualifies(quotaInfo[1]) THEN 1 ELSE 0)

\* the snapshot of a free plan exactly at one half is shown and the signal
\* has fired
C27_Witness ==
  /\ quotaInfo # Absent
  /\ quotaInfo[1].tier = "free"
  /\ quotaInfo[1].limit = Present(2)
  /\ quotaInfo[1].remaining = Present(1)
  /\ upgradeClicks = 1

\* C28: a call of checkInferenceServer makes exactly one request, GET
\* {address}/v1/models, with a Bearer credential exactly when a key is given;
\* it returns online exactly when that request is answered with a 2xx status
\* and offline with a detail text otherwise; it returns in every case and makes
\* no second attempt.
C28_ProbeOnceOnlineIff2xx ==
  lastOp.op = "probe" =>
    /\ Len(lastOp.requests) = 1
    /\ lastOp.requests[1].method = "GET"
    /\ lastOp.requests[1].url = lastOp.address \o <<"/v1/models">>
    /\ lastOp.requests[1].authorization =
         (IF lastOp.apiKey \in {NoKey, ""} THEN Absent
          ELSE Present(<<"Bearer ", lastOp.apiKey>>))
    /\ ~lastOp.result.thrown
    /\ lastOp.result.status \in {"online", "offline"}
    /\ lastOp.result.status = "online" <=>
         (~lastOp.answers[1].failed /\ lastOp.answers[1].status \in 200..299)
    /\ lastOp.result.status = "offline" => lastOp.result.error # <<>>

\* a probe with a credential was answered 404 while a second attempt would
\* have been answered 200
C28_Witness ==
  /\ lastOp.op = "probe"
  /\ lastOp.apiKey = "k1"
  /\ lastOp.answers = <<ProbeStatus(404), ProbeStatus(200)>>
  /\ lastOp.result.status = "offline"

\* C29: every health check that was started eventually comes to its end, also
\* the check of a backend that never answers.
C29_ProbeReturns ==
  \A address \in CustomAddrs :
    BagIn(address, pendingChecks) ~> ~BagIn(address, pendingChecks)

\* a transport error, a status outside 2xx, or a body from which no content
\* can be read
Failure(resp) ==
  \/ resp.failed
  \/ resp.status \notin 200..299
  \/ ~HasContent(resp.json)

\* C30: a sendPrompt call that finds its model has exactly one request in
\* flight, addressed to the backend the catalog names for that model; once
\* that request is answered no request of the call is in flight any more, and
\* when the answer is a failure the call ends with an error and no value.
C30_OneDispatchNoFallback ==
  /\ (lastOp.op = "send" /\ lastOp.found) =>
       /\ call # NoCall
       /\ call[1].server = lastOp.server
       /\ call[1].model = lastOp.name
       /\ \E i \in DOMAIN availableModels :
            /\ availableModels[i].name = lastOp.name
            /\ availableModels[i].server = call[1].server
  /\ lastOp.op = "response" =>
       /\ call = NoCall
       /\ Failure(lastOp.resp) =>
            /\ lastOp.result.error # "none"
            /\ lastOp.result.value = Absent

\* a request for a model that two registered backends serve was answered with
\* status 500 and the call ended with that error
C30_Witness ==
  /\ lastOp.op = "response"
  /\ lastOp.request.model = "x"
  /\ lastOp.resp.status = 500
  /\ lastOp.result.status = 500
  /\ \E i, j \in DOMAIN availableModels :
       /\ availableModels[i].name = "x"
       /\ availableModels[j].name = "x"
       /\ availableModels[i].server # availableModels[j].server

\* C31: mutating a list of backends that a registry function returned, or an
\* entry of it, leaves the registry as it was.
C31_ReturnedListIsSnapshot ==
  lastOp.op = "callerMutates" => customServers = lastOp.before

\* C32: the add handler called for an address whose trimmed text is already
\* registered leaves that entry (credential, enabled flag, health) as it was,
\* whatever credential the call carries; called for a new address it creates
\* an entry that holds exactly the credential of the call.
C32_AddKeepsOrStoresCredential ==
  mounted =>
    \A address \in AddrInputs, apiKey \in KeyInputs :
      LET after == handleAddCustomServer(M, address, apiKey).customServers
          i == find(customServers, trim(address))
          j == find(after, trim(address))
      IN IF i # 0
         THEN after = customServers
         ELSE /\ j # 0
              /\ after[j].apiKey = apiKey

\* C33: right after a quota refresh is answered 200 with a numeric remaining
\* figure, the cached figure is that remaining, whatever was cached before.
C33_RefreshOverwritesCache ==
  (/\ lastOp.op = "quota"
   /\ lastOp.answer.kind = "http"
   /\ lastOp.answer.status = 200
   /\ lastOp.answer.data # Absent
   /\ lastOp.answer.data[1].remaining # Absent) =>
    quotaItem = Item(lastOp.answer.data[1].remaining[1])

\* the answer brought remaining 1 while optimistic decrements had taken the
\* cached figure to 0
C33_Witness ==
  /\ lastOp.op = "quota"
  /\ lastOp.answer.status = 200
  /\ lastOp.quotaBefore = Item(0)
  /\ quotaItem = Item(1)

\* C34: for the registry of every reachable state and every state of the
\* local and the cloud backend, the aggregate status is online exactly when
\* the local backend is online, the cloud backend is enabled and
\* authenticated, or an enabled custom backend has health online; otherwise
\* it is unchecked exactly when custom backends exist and all of them are
\* unchecked, and offline in every other case.
C34_AggregateStatus ==
  \A localOnline \in BOOLEAN, usingObServer \in BOOLEAN,
     authenticated \in BOOLEAN :
    LET status == computedServerStatus(customServers, localOnline,
                                       usingObServer, authenticated)
        anyOnline ==
          \/ localOnline
          \/ (usingObServer /\ authenticated)
          \/ \E i \in DOMAIN customServers :
               customServers[i].enabled /\ customServers[i].status = "online"
        allUnchecked ==
          /\ customServers # <<>>
          /\ \A i \in DOMAIN customServers :
               customServers[i].status = "unchecked"
    IN status = (IF anyOnline THEN "online"
                 ELSE IF allUnchecked THEN "unchecked"
                 ELSE "offline")

\* the registry holds a disabled backend whose health is online next to one
\* that is unchecked
C34_Witness ==
  /\ \E i \in DOMAIN customServers :
       ~customServers[i].enabled /\ customServers[i].status = "online"
  /\ \E i \in DOMAIN customServers : customServers[i].status = "unchecked"
  /\ computedServerStatus(customServers, FALSE, TRUE, FALSE) = "offline"

\* C35: an operation on a custom backend (add, remove, toggle, the start and
\* the end of its health check) never takes the address of the local or of the
\* cloud backend out of the active address set; stated for the operations on a
\* custom backend that is registered, which here is one registered at the
\* address of the local backend.
C35_CustomOpsKeepFixedActive ==
  [][(/\ lastOp'.op \in {"add", "remove", "toggle", "check", "checked"}
      /\ \E i \in 1..Len(customServers) :
           customServers[i].address = LOCAL_SERVER_ADDRESS) =>
       \A fixed \in {LOCAL_SERVER_ADDRESS, OB_SERVER_ADDRESS} :
         fixed \in Range(inferenceAddresses) =>
           fixed \in Range(inferenceAddresses')]_vars

\* C36: when the answer of a health check arrives for an address that was
\* removed while the probe was awaited, the registry and the active set are
\* without that address afterwards; when it arrives for an entry that is
\* disabled by then, the address is not in the active set afterwards.
C36_LateResultNoResurrection ==
  [][(lastOp'.op = "checked" /\ BagIn(lastOp'.addr, pendingChecks)) =>
       LET address == lastOp'.addr
           i == find(customServers, address)
       IN /\ i = 0 =>
               /\ find(customServers', address) = 0
               /\ address \notin Range(inferenceAddresses')
          /\ (i # 0 /\ ~customServers[i].enabled) =>
               address \notin Range(inferenceAddresses')]_vars

C36_Witness ==
  /\ lastOp.op = "checked"
  /\ find(customServers, lastOp.addr) = 0
  /\ \E i \in 1..Len(customServers) :
       ~customServers[i].enabled /\ customServers[i].status = "online"

\* the records a localStorage item holds
Persisted(item) == IF item = NoItem THEN <<>> ELSE JSONparse(item[1])

\* C37: a registry call never loses persisted records: once the list has been
\* loaded the persisted list equals the in-memory registry after the call,
\* and every backend persisted before a call, other than the one the call
\* removes, is persisted after it, whether or not loadCustomServers has run.
C37_PersistedNeverLosesRecords ==
  [][lastOp'.op = "registryCall" =>
       /\ mounted => Persisted(stored') = customServers'
       /\ \A i \in DOMAIN Persisted(stored) :
            LET address == Persisted(stored)[i].address
            IN \/ /\ lastOp'.fn = "removeCustomServer"
                  /\ lastOp'.addr = address
               \/ find(Persisted(stored'), address) # 0]_vars

\* C38: the cached remaining-quota figure, written by a refresh as a number
\* that is not negative, is never negative after any sequence of sends to the
\* cloud backend and refreshes.
C38_CachedQuotaNeverNegative ==
  (quotaItem # NoItem /\ quotaItem[1] \in Int) => quotaItem[1] >= 0

\* C39: what handleStreamingResponse returns and the callbacks it makes depend
\* on the frame lines alone: for every way of cutting the text of the stream
\* into chunks, a cut inside a line included, they are what the uncut text
\* gives.
C39_ChunkingIndependent ==
  lastOp.op = "stream" =>
    lastOp.result =
      handleStreamingResponse(Present(Chunks(Wire(lastOp.frames), {})),
                              lastOp.onStreamChunk)

====
